---- MODULE Spec2Model ----
(***************************************************************************)
(* comment-catcher: the `check` command (dist/cli.js) and the related-file *)
(* discovery it calls (getDependents, dist/core/dependencies.js and its    *)
(* TypeScript source src/core/dependencies.ts).                            *)
(*                                                                         *)
(* A path is a sequence of one-character strings, so that                  *)
(* normalizeFilePath is modelled by what it does to the characters.        *)
(***************************************************************************)
EXTENDS Integers, Sequences, FiniteSets, TLC

\* ------------------------------------------------------------------ bounds
MaxDepth == 2
MaxSeeds == 2
MaxBatchFindings == 1
MaxPatchLen == 4
MaxMinLength == 11
MaxRuns == 2
MaxPathLen == 4
MaxHunkLen == 2
MaxSourceLines == 3
MaxLoadCalls == 3
MaxDedupFindings == 3
MaxReportFindings == 2

\* ------------------------------------------------------- program constants
BATCH_SIZE == 50

\* ------------------------------------------------------------- characters
BS == "\\"
DotSlash == <<".", "/">>

Range(s) == {s[i] : i \in 1..Len(s)}

\* ------------------------------------------------------------------ paths
\* filePath.startsWith('./')
startsWith(s, p) == Len(s) >= Len(p) /\ SubSeq(s, 1, Len(p)) = p

\* filePath.substring(2)
substring(s, n) == SubSeq(s, n + 1, Len(s))

\* normalized.replace(/\\/g, '/')
replaceBackslashes(s) == [i \in 1..Len(s) |-> IF s[i] = BS THEN "/" ELSE s[i]]

\* a variant that converts the slashes before it strips the prefix
normalizeFilePathSlashFirst(filePath) ==
    LET n == replaceBackslashes(filePath)
    IN  IF startsWith(n, DotSlash) THEN substring(n, 2) ELSE n

\* a variant that leaves the leading ./ in place
normalizeFilePathKeepDot(filePath) == replaceBackslashes(filePath)

normalizeFilePath(filePath) ==
    replaceBackslashes(IF startsWith(filePath, DotSlash)
                       THEN substring(filePath, 2) ELSE filePath)

\* ------------------------------------------------------------ input files
fA == <<"s", "/", "a">>
fB == <<"b">>
fC == <<"c">>
fD == <<"d">>
Files == {fA, fB, fC, fD}
FileOrder == <<fA, fB, fC, fD>>

\* the ways the one nested file is written by git, by a caller or by the
\* resolver: plain, with a leading ./, with a backslash separator, and with
\* a leading .\
Plain == "plain"
Dotted == "dotted"
Backslashed == "backslashed"
DotBackslashed == "dotbackslashed"
Spellings == {Plain, Dotted, Backslashed, DotBackslashed}

Spell(f, sp) ==
    IF f # fA THEN f
    ELSE CASE sp = Plain          -> fA
           [] sp = Dotted         -> <<".", "/", "s", "/", "a">>
           [] sp = Backslashed    -> <<"s", BS, "a">>
           [] sp = DotBackslashed -> <<".", BS, "s", "/", "a">>

\* a value that is not a string (a dependency record without `resolved`)
Undefined == <<"undefined", "undefined">>

\* ------------------------------------------------- insertion-ordered sets
\* a JavaScript Set iterates in insertion order: a sequence without repeats
SetAdd(s, x) == IF x \in Range(s) THEN s ELSE Append(s, x)

RECURSIVE SetAddAll(_, _)
SetAddAll(s, xs) ==
    IF xs = <<>> THEN s ELSE SetAddAll(SetAdd(s, Head(xs)), Tail(xs))

\* new Set(array)
SetOf(xs) == SetAddAll(<<>>, xs)

\* map.get(key) of a Map held as a function on its keys
MapGet(m, k) == IF k \in DOMAIN m THEN m[k] ELSE <<>>

\* if (!map.has(k)) map.set(k, new Set()); map.get(k).add(v)
MapAddFresh(m, k, v) ==
    [x \in (DOMAIN m) \cup {k} |-> IF x = k THEN <<v>> ELSE m[x]]
MapAdd(m, k, v) ==
    [x \in (DOMAIN m) \cup {k} |-> IF x = k THEN SetAdd(MapGet(m, k), v) ELSE m[x]]

EmptyMap == [x \in {} |-> <<>>]


\* ------------------------------------------------------------------ state
VARIABLES
    build,          \* which getDependents runs: "dist" (compiled) or "src" (TypeScript)
    options,        \* commander options of `check`: deps, depth, output
    apiKey,         \* process.env.ANTHROPIC_API_KEY is set
    pc,             \* position of the check action
    error,          \* the error caught by the check action ("none" while there is none)
    exitCode,       \* process exit code, meaningful once pc = "exited"
    changedFiles,   \* cli: changedFiles
    relatedFiles,   \* cli: relatedFiles
    allFiles,       \* cli: allFiles, the list handed to extractComments
    comments,       \* cli: comments.length
    outdatedComments, \* cli: outdatedComments
    resolverCalls,  \* number of calls of cruise()
    llmRequests,    \* number of anthropic.messages.create calls issued
    inFlight,       \* LLM requests issued and not yet answered
    result,         \* getDependents: the value cruise() produced
    depth,          \* getDependents: depth parameter
    changedSet,     \* getDependents: changedSet
    dependentMap,   \* getDependents: reverse map (file -> files that import it)
    dependencyMap,  \* getDependents: forward map (file -> files it imports)
    queue,          \* getDependents: queue
    visited,        \* getDependents: visited
    relatedSet,     \* getDependents: relatedFiles (dist) / dependents (src)
    raised,         \* getDependents threw to its caller
    i,              \* analyzeComments: loop index
    allOutdatedComments, \* analyzeComments: allOutdatedComments
    batchLog,       \* batch numbers in the order their requests were issued
    batchResponses, \* what each answered batch request produced, in order
    grouped,        \* deduplicateComments: groups not yet handled
    deduplicated,   \* deduplicateComments: deduplicated
    patchLines,     \* findCommentPositions: file.patch.split('\n') of one file
    commentLine,    \* findCommentPositions: comment.comment.line
    foundPosition,  \* findCommentPositions: foundPosition
    posPc,          \* position of the diff-position mapper: "scan" or "done"
    configFile,     \* the config file loadConfig finds (or none)
    cleanedComment, \* extractCommentsFromSourceFile: cleanedComment
    isNoise,        \* what isNoiseComment returned, and the test that decided
    noisePc,        \* position of the noise filter: "filter" or "done"
    actPc,          \* position of the action script ("idle" between two runs)
    runs,           \* number of runs of the action script on the pull request
    exitStatus,     \* exit status of the last run of the action script
    tokenLogin,     \* the login GITHUB_TOKEN posts comments under
    issueComments,  \* the pull request's issue comments posted by the action
    checkStatus,    \* action script: how the check command ended in this run
    reportComments, \* action script: outdatedComments, read from the report
    prFiles,        \* action script: prFiles
    commentPositions, \* action script: commentPositions
    notInDiff,      \* action script: notInDiff
    summaryBody,    \* action script: summaryBody (its marker and listed findings)
    headSha,        \* action script: headSha, the head commit of the event
    reviews,        \* the pull request's Comment Catcher reviews
    dismissFailed,  \* "Failed to dismiss review" has been logged in some run
    filePath,       \* normalizeFilePath: its argument
    normalized,     \* normalizeFilePath: the value it returned
    normPc,         \* position of the path normalizer: "call" or "done"
    diffLines,      \* findCommentPositionsInDiff: diffLines
    findingFile,    \* findCommentPositionsInDiff: filePath of the comment
    findingLine,    \* findCommentPositionsInDiff: commentLine
    diffPosition,   \* findCommentPositionsInDiff: foundPosition
    diffPc,         \* position of the full-diff mapper: "scan" or "done"
    sourceLines,    \* the lines of the source file whose comments are grouped
    groupedRanges,  \* extractCommentsFromSourceFile: groupedRanges
    groupPc,        \* position of the comment grouping: "group" or "done"
    cachedConfig,   \* config.ts: cachedConfig
    diskConfig,     \* the config file in the working directory
    fsReads,        \* number of loadConfig calls that went to the file system
    loadResult,     \* what the last loadConfig call returned or threw
    loadCalls       \* number of loadConfig calls of the process

cliVars == <<options, apiKey, pc, error, exitCode, changedFiles, relatedFiles,
             allFiles, comments, outdatedComments>>
depVars == <<build, resolverCalls, result, depth, changedSet, dependentMap,
             dependencyMap, queue, visited, relatedSet, raised>>
llmVars == <<llmRequests, inFlight, i, allOutdatedComments, batchLog,
             batchResponses, grouped, deduplicated>>
posVars == <<patchLines, commentLine, foundPosition, posPc>>
\* the state outside the check command
noiseVars == <<configFile, cleanedComment, isNoise, noisePc>>
actVars == <<actPc, runs, exitStatus, tokenLogin, issueComments, checkStatus,
             reportComments, prFiles, commentPositions, notInDiff, summaryBody,
             headSha, reviews, dismissFailed>>
normVars == <<filePath, normalized, normPc>>
diffVars == <<diffLines, findingFile, findingLine, diffPosition, diffPc>>
groupVars == <<sourceLines, groupedRanges, groupPc>>
cacheVars == <<cachedConfig, diskConfig, fsReads, loadResult, loadCalls>>
scriptVars == <<posVars, noiseVars, actVars, normVars, diffVars, groupVars, cacheVars>>
vars == <<cliVars, depVars, llmVars, scriptVars>>

\* ------------------------------------------------------- resolver outputs
\* the import edges the resolver may report
CandidateEdges ==
    { <<fA, fB>>, <<fB, fC>>, <<fD, fA>>,      \* A imports B, B imports C, D imports A
      <<fC, fA>>, <<fB, fA>>, <<fA, fA>> }     \* import cycles and a self-import
SpelledEdges == { <<fA, fB>>, <<fD, fA>> }

\* result.output.modules for the import edges G: one module per file, in
\* FileOrder, its source spelled srcSp and its dependencies spelled depSp
DependenciesOf(f, G, depSp) ==
    LET targets == SelectSeq(FileOrder, LAMBDA t : <<f, t>> \in G)
    IN  [k \in 1..Len(targets) |-> [resolved |-> Spell(targets[k], depSp)]]

ModulesOf(G, srcSp, depSp) ==
    [k \in 1..Len(FileOrder) |->
        [source |-> Spell(FileOrder[k], srcSp),
         dependencies |-> DependenciesOf(FileOrder[k], G, depSp)]]

\* a module list whose last dependency record has no `resolved`
BrokenModulesOf(G) ==
    Append(ModulesOf(G, Plain, Plain),
           [source |-> fD, dependencies |-> <<[resolved |-> Undefined]>>])

CruiseResults ==
       { [kind |-> "throws", modules |-> <<>>],
         [kind |-> "string", modules |-> <<>>],
         [kind |-> "nomodules", modules |-> <<>>] }
  \cup { [kind |-> "modules", modules |-> ModulesOf(G, Plain, Plain)] :
            G \in SUBSET CandidateEdges }
  \cup { [kind |-> "modules", modules |-> ModulesOf(G, sp[1], sp[2])] :
            G \in SUBSET SpelledEdges, sp \in Spellings \X Spellings }
  \cup { [kind |-> "modules", modules |-> BrokenModulesOf(G)] :
            G \in SUBSET {<<fA, fB>>, <<fD, fA>>} }

\* ------------------------------------------------------- git's file lists
\* the changed files: up to MaxSeeds files in FileOrder, the nested one in
\* any spelling
SeedLists ==
    { SelectSeq([k \in 1..Len(FileOrder) |-> Spell(FileOrder[k], sp)],
                LAMBDA p : \E f \in S : p = Spell(f, sp)) :
        S \in {T \in SUBSET Files : Cardinality(T) <= MaxSeeds},
        sp \in Spellings }

\* parseInt(options.depth)
Depths == 0..MaxDepth


\* ---------------------------------------------------------- getDependents
\* the (source, resolved) pairs in the order the two nested loops meet them
RECURSIVE ImportPairs(_)
ImportPairs(modules) ==
    IF modules = <<>> THEN <<>>
    ELSE LET m == Head(modules)
         IN  [k \in 1..Len(m.dependencies) |-> <<m.source, m.dependencies[k].resolved>>]
             \o ImportPairs(Tail(modules))

\* processing the resolver's value throws inside the try block
ProcessingThrows(r) ==
    \/ r.kind = "throws"                       \* cruise() rejects
    \/ r.kind = "string"                       \* throw new Error('Unexpected string output ...')
    \/ r.kind = "nomodules"                    \* result.output.modules is not iterable
    \/ \E k \in 1..Len(ImportPairs(r.modules)) :   \* undefined.startsWith
          ImportPairs(r.modules)[k][2] = Undefined

\* dependentMap: resolvedPath -> the sources that import it
RECURSIVE BuildDependentMap(_, _)
BuildDependentMap(m, pairs) ==
    IF pairs = <<>> THEN m
    ELSE BuildDependentMap(MapAdd(m, normalizeFilePath(Head(pairs)[2]),
                                     normalizeFilePath(Head(pairs)[1])),
                           Tail(pairs))

\* dependencyMap: source -> the resolved paths it imports
RECURSIVE BuildDependencyMap(_, _)
BuildDependencyMap(m, pairs) ==
    IF pairs = <<>> THEN m
    ELSE BuildDependencyMap(MapAdd(m, normalizeFilePath(Head(pairs)[1]),
                                      normalizeFilePath(Head(pairs)[2])),
                            Tail(pairs))

\* the TypeScript source builds the reverse map only
HasForwardMap(b) == b = "dist"

\* !changedSet.has(x)
NotSeedAlways(x, cs) == TRUE
NotSeed(x, cs) == x \notin Range(cs)

\* currentDepth >= depth
DepthReachedLate(currentDepth, d) == currentDepth > d
DepthReachedEarly(currentDepth, d) == currentDepth + 1 >= d
DepthReached(currentDepth, d) == currentDepth >= d

\* the neighbours the loop body looks at: dependents first, then dependencies
Neighbours(file) ==
    MapGet(dependentMap, file) \o MapGet(dependencyMap, file)

\* the catch block: console.warn, return []
CatchRethrows == [value |-> <<>>, raised |-> TRUE]
CatchBlock == [value |-> <<>>, raised |-> FALSE]

NoResult == [kind |-> "none", modules |-> <<>>]

DropDependentsLocals ==
    /\ result' = NoResult
    /\ changedSet' = <<>>
    /\ dependentMap' = EmptyMap
    /\ dependencyMap' = EmptyMap
    /\ queue' = <<>>
    /\ visited' = <<>>
    /\ relatedSet' = <<>>

\* the catch block of the check action: print the message, process.exit(1)
Fail(e) ==
    /\ pc' = "exited"
    /\ exitCode' = 1
    /\ error' = e

\* ------------------------------------------------------------------- Init
\* the check command has not run
CheckIdle(b, o, k) ==
    /\ build = b
    /\ options = o
    /\ apiKey = k
    /\ pc = "getChangedFiles"
    /\ error = "none"
    /\ exitCode = 0
    /\ changedFiles = <<>>
    /\ relatedFiles = <<>>
    /\ allFiles = <<>>
    /\ comments = 0
    /\ outdatedComments = <<>>
    /\ resolverCalls = 0
    /\ llmRequests = 0
    /\ inFlight = 0
    /\ result = NoResult
    /\ depth = 0
    /\ changedSet = <<>>
    /\ dependentMap = EmptyMap
    /\ dependencyMap = EmptyMap
    /\ queue = <<>>
    /\ visited = <<>>
    /\ relatedSet = <<>>
    /\ raised = FALSE
    /\ i = 0
    /\ allOutdatedComments = <<>>
    /\ batchLog = <<>>
    /\ batchResponses = <<>>
    /\ grouped = <<>>
    /\ deduplicated = <<>>

\* the diff-position mapper has not run
PosIdle ==
    /\ patchLines = <<>>
    /\ commentLine = 0
    /\ foundPosition = 0
    /\ posPc = "done"

\* commentFilters of a configuration: `present` is false when the key is
\* missing, hasMinLength / hasPatterns are false when that field is missing
Filters(present, hasMinLength, minLength, hasPatterns, ignorePatterns) ==
    [present |-> present, hasMinLength |-> hasMinLength, minLength |-> minLength,
     hasPatterns |-> hasPatterns, ignorePatterns |-> ignorePatterns]
NoFilters == Filters(FALSE, FALSE, 0, FALSE, <<>>)

\* the noise filter has not run
NoiseIdle ==
    /\ configFile = [kind |-> "none", filters |-> NoFilters]
    /\ cleanedComment = <<>>
    /\ isNoise = [noise |-> FALSE, by |-> "none"]
    /\ noisePc = "done"

\* the body of an issue comment: its heading and the findings it lists
Body(marker, listed) == [marker |-> marker, listed |-> listed]
NoBody == Body("none", <<>>)

\* no run has read an event or created a review
NoReviews ==
    /\ headSha = "none"
    /\ reviews = <<>>
    /\ dismissFailed = FALSE

\* the locals of main() before a run has set them
ActLocalsUnset ==
    /\ checkStatus = "none"
    /\ reportComments = <<>>
    /\ prFiles = <<>>
    /\ commentPositions = <<>>
    /\ notInDiff = <<>>
    /\ summaryBody = NoBody

\* the action script has not run on the pull request
ActIdle ==
    /\ actPc = "idle"
    /\ runs = 0
    /\ exitStatus = 0
    /\ tokenLogin = "github-actions[bot]"
    /\ issueComments = <<>>
    /\ NoReviews
    /\ ActLocalsUnset

\* normalizeFilePath has not been called on its own
NormIdle ==
    /\ filePath = <<>>
    /\ normalized = <<>>
    /\ normPc = "done"

\* the full-diff mapper is not in use
DiffIdle ==
    /\ diffLines = <<>>
    /\ findingFile = "a.ts"
    /\ findingLine = 0
    /\ diffPosition = 0
    /\ diffPc = "done"

\* groupConsecutiveComments is not in use
GroupIdle ==
    /\ sourceLines = <<>>
    /\ groupedRanges = <<>>
    /\ groupPc = "done"

\* cachedConfig: null, or the configuration object it holds
NullConfig == [set |-> FALSE, config |-> NoFilters]
Cached(config) == [set |-> TRUE, config |-> config]

\* how a loadConfig call ended: not called yet, a returned configuration
\* object, or an error thrown to the caller
LoadResult(kind, config) == [kind |-> kind, config |-> config]

\* a process that has not called loadConfig, in a directory without a
\* config file
CacheIdle ==
    /\ cachedConfig = NullConfig
    /\ diskConfig = [kind |-> "none", filters |-> NoFilters]
    /\ fsReads = 0
    /\ loadResult = LoadResult("none", NoFilters)
    /\ loadCalls = 0

Init ==
    /\ \E b \in {"dist", "src"}, o \in [deps : BOOLEAN, depth : Depths], k \in BOOLEAN :
          CheckIdle(b, o, k)
    /\ PosIdle
    /\ NoiseIdle
    /\ ActIdle
    /\ NormIdle
    /\ DiffIdle
    /\ GroupIdle
    /\ CacheIdle

\* ------------------------------------------------- check action, steps 1-2
\* Step 1: getChangedFiles; no changed file ends the run
GetChangedFiles ==
    /\ pc = "getChangedFiles"
    /\ \E out \in {"config", "git", "list"} :
          IF out # "list"
          THEN /\ Fail(IF out = "config" THEN "config" ELSE "changedFiles")
               /\ UNCHANGED changedFiles
          ELSE \E files \in SeedLists :
                  /\ changedFiles' = files
                  /\ pc' = IF files = <<>> THEN "exited" ELSE "relatedFiles"
                  /\ UNCHANGED <<exitCode, error>>
    /\ UNCHANGED <<options, apiKey, relatedFiles, allFiles, comments, outdatedComments>>
    /\ UNCHANGED <<depVars, llmVars>>
    /\ UNCHANGED scriptVars

\* if (options.deps !== false): commander sets deps to false for --no-deps
DepsEnabledAlways(o) == TRUE
DepsEnabled(o) == o.deps # FALSE

\* Step 2 with --no-deps: relatedFiles stays []
SkipDependents ==
    /\ pc = "relatedFiles"
    /\ ~DepsEnabled(options)
    /\ relatedFiles' = <<>>
    /\ pc' = "extractComments"
    /\ UNCHANGED <<options, apiKey, error, exitCode, changedFiles, allFiles,
                   comments, outdatedComments>>
    /\ UNCHANGED <<depVars, llmVars>>
    /\ UNCHANGED scriptVars

\* Step 2: getDependents(changedFiles, parseInt(options.depth)) up to cruise()
CallGetDependents ==
    /\ pc = "relatedFiles"
    /\ DepsEnabled(options)
    /\ depth' = options.depth
    /\ IF changedFiles = <<>>
       THEN /\ relatedFiles' = <<>>
            /\ pc' = "extractComments"
            /\ UNCHANGED resolverCalls
       ELSE /\ pc' = "cruise"
            /\ resolverCalls' = resolverCalls + 1
            /\ UNCHANGED relatedFiles
    /\ UNCHANGED <<options, apiKey, error, exitCode, changedFiles, allFiles,
                   comments, outdatedComments>>
    /\ UNCHANGED <<build, result, changedSet, dependentMap, dependencyMap, queue,
                   visited, relatedSet, raised>>
    /\ UNCHANGED llmVars
    /\ UNCHANGED scriptVars

\* cruise() settles; the maps and the queue are built, or the catch block runs
Cruise ==
    /\ pc = "cruise"
    /\ \E r \in CruiseResults :
          /\ result' = r
          /\ IF ProcessingThrows(r)
             THEN /\ raised' = CatchBlock.raised
                  /\ IF CatchBlock.raised
                     THEN /\ Fail("dependents")
                          /\ UNCHANGED relatedFiles
                     ELSE /\ relatedFiles' = CatchBlock.value
                          /\ pc' = "extractComments"
                          /\ UNCHANGED <<error, exitCode>>
                  /\ UNCHANGED <<changedSet, dependentMap, dependencyMap, queue,
                                 visited, relatedSet>>
             ELSE /\ changedSet' = SetOf([k \in 1..Len(changedFiles) |->
                                            normalizeFilePath(changedFiles[k])])
                  /\ dependentMap' = BuildDependentMap(EmptyMap, ImportPairs(r.modules))
                  /\ dependencyMap' = IF HasForwardMap(build)
                                      THEN BuildDependencyMap(EmptyMap, ImportPairs(r.modules))
                                      ELSE EmptyMap
                  /\ queue' = [k \in 1..Len(changedSet') |->
                                  [file |-> changedSet'[k], currentDepth |-> 0]]
                  /\ visited' = <<>>
                  /\ relatedSet' = <<>>
                  /\ pc' = "bfs"
                  /\ UNCHANGED <<relatedFiles, error, exitCode, raised>>
    /\ UNCHANGED <<options, apiKey, changedFiles, allFiles, comments, outdatedComments>>
    /\ UNCHANGED <<build, resolverCalls, depth>>
    /\ UNCHANGED llmVars
    /\ UNCHANGED scriptVars

\* queue.shift(): the queue without its first entry
DequeuePeek(q) == q
Dequeue(q) == Tail(q)

\* queue.push(entry) for each added neighbour, in order
EnqueueFront(q, entries) == entries \o q
Enqueue(q, entries) == q \o entries

\* one iteration of the while loop that skips its entry
SkipEntry ==
    /\ pc = "bfs"
    /\ queue # <<>>
    /\ \/ Head(queue).file \in Range(visited)
       \/ DepthReached(Head(queue).currentDepth, depth)
    /\ queue' = Dequeue(queue)
    /\ UNCHANGED <<build, resolverCalls, result, depth, changedSet, dependentMap,
                   dependencyMap, visited, relatedSet, raised>>
    /\ UNCHANGED <<cliVars, llmVars>>
    /\ UNCHANGED scriptVars

\* one iteration of the while loop that expands its entry
Expand ==
    /\ pc = "bfs"
    /\ queue # <<>>
    /\ Head(queue).file \notin Range(visited)
    /\ ~DepthReached(Head(queue).currentDepth, depth)
    /\ LET file == Head(queue).file
           currentDepth == Head(queue).currentDepth
           added == SelectSeq(Neighbours(file), LAMBDA x : NotSeed(x, changedSet))
       IN  /\ visited' = SetAdd(visited, file)
           /\ relatedSet' = SetAddAll(relatedSet, added)
           /\ queue' = Enqueue(Dequeue(queue),
                               [k \in 1..Len(added) |->
                                   [file |-> added[k], currentDepth |-> currentDepth + 1]])
    /\ UNCHANGED <<build, resolverCalls, result, depth, changedSet, dependentMap,
                   dependencyMap, raised>>
    /\ UNCHANGED <<cliVars, llmVars>>
    /\ UNCHANGED scriptVars

\* return Array.from(relatedFiles)
ReturnRelated ==
    /\ pc = "bfs"
    /\ queue = <<>>
    /\ relatedFiles' = relatedSet
    /\ pc' = "extractComments"
    /\ UNCHANGED <<options, apiKey, error, exitCode, changedFiles, allFiles,
                   comments, outdatedComments>>
    /\ UNCHANGED <<depVars, llmVars>>
    /\ UNCHANGED scriptVars


\* ------------------------------------------------------- analyzer helpers
\* a finding: the comment's file and line, and the reason the model gave
FindingFiles == {"a.ts", "b.ts"}
Finding(f, l) == [file |-> f, line |-> l, reason |-> "reason"]
FindingChoices == {Finding("a.ts", 1), Finding("a.ts", 2)}

\* the lists one tool_use block may report for a batch
RECURSIVE SeqsUpTo(_, _)
SeqsUpTo(S, n) ==
    IF n = 0 THEN {<<>>}
    ELSE SeqsUpTo(S, n - 1) \cup
         {Append(q, x) : q \in {t \in SeqsUpTo(S, n - 1) : Len(t) = n - 1}, x \in S}

BatchFindings == SeqsUpTo(FindingChoices, MaxBatchFindings)

\* a.comment.file.localeCompare(b.comment.file)
localeCompare(a, b) ==
    IF a = b THEN 0 ELSE IF a = "a.ts" THEN -1 ELSE 1

\* the comparator of the sort in deduplicateComments
Compare(a, b) ==
    IF a.file # b.file THEN localeCompare(a.file, b.file) ELSE a.line - b.line

\* [...comments].sort(compare): a stable sort
RECURSIVE InsertSorted(_, _)
InsertSorted(sorted, x) ==
    IF sorted = <<>> THEN <<x>>
    ELSE IF Compare(Head(sorted), x) <= 0
         THEN <<Head(sorted)>> \o InsertSorted(Tail(sorted), x)
         ELSE <<x>> \o sorted

RECURSIVE SortFindings(_)
SortFindings(xs) ==
    IF xs = <<>> THEN <<>>
    ELSE InsertSorted(SortFindings(SubSeq(xs, 1, Len(xs) - 1)), xs[Len(xs)])

\* findings of the same file and line only
SameGroupExact(lastComment, comment) ==
    lastComment.file = comment.file /\ comment.line = lastComment.line

\* the grouping test of deduplicateComments: same file and consecutive or
\* overlapping lines (the comment records of this build carry no endLine)
SameGroup(lastComment, comment) ==
    LET lastEnd == lastComment.line
    IN  lastComment.file = comment.file /\ comment.line <= lastEnd + 1

\* the grouping loop of deduplicateComments
RECURSIVE GroupSorted(_, _, _)
GroupSorted(sorted, groups, currentGroup) ==
    IF sorted = <<>>
    THEN IF currentGroup # <<>> THEN Append(groups, currentGroup) ELSE groups
    ELSE LET comment == Head(sorted)
         IN  IF currentGroup = <<>>
             THEN GroupSorted(Tail(sorted), groups, <<comment>>)
             ELSE IF SameGroup(currentGroup[Len(currentGroup)], comment)
                  THEN GroupSorted(Tail(sorted), groups, Append(currentGroup, comment))
                  ELSE GroupSorted(Tail(sorted), Append(groups, currentGroup), <<comment>>)

\* the numbers of comments extractComments may return
CommentCounts == {0, 1, BATCH_SIZE, BATCH_SIZE + 1}

\* ------------------------------------------------- check action, steps 3-6
\* Step 3: allFiles = [...changedFiles, ...relatedFiles]; extractComments
ExtractComments ==
    /\ pc = "extractComments"
    /\ allFiles' = changedFiles \o relatedFiles
    /\ \E out \in {"throws", "comments"} :
          IF out = "throws"
          THEN /\ Fail("extractComments")
               /\ UNCHANGED comments
          ELSE \E n \in CommentCounts :
                  /\ comments' = n
                  /\ pc' = IF n = 0 THEN "exited" ELSE "getDiff"
                  /\ UNCHANGED <<error, exitCode>>
    /\ UNCHANGED <<options, apiKey, changedFiles, relatedFiles, outdatedComments>>
    /\ UNCHANGED <<depVars, llmVars>>
    /\ UNCHANGED scriptVars

\* Step 4: getDiff; nothing after this reads the file lists or the locals
\* of getDependents
GetDiff ==
    /\ pc = "getDiff"
    /\ \E out \in {"throws", "diff"} :
          IF out = "throws"
          THEN Fail("getDiff")
          ELSE /\ pc' = "analyzeComments"
               /\ UNCHANGED <<error, exitCode>>
    /\ changedFiles' = <<>>
    /\ relatedFiles' = <<>>
    /\ allFiles' = <<>>
    /\ DropDependentsLocals
    /\ depth' = 0
    /\ UNCHANGED <<options, apiKey, comments, outdatedComments>>
    /\ UNCHANGED <<build, resolverCalls, raised>>
    /\ UNCHANGED llmVars
    /\ UNCHANGED scriptVars

\* Step 5: analyzeComments up to its loop: the credential check
CheckApiKeyLate == TRUE
CheckApiKey == apiKey

AnalyzeComments ==
    /\ pc = "analyzeComments"
    /\ IF ~CheckApiKey
       THEN /\ Fail("credential")
            /\ UNCHANGED <<i, allOutdatedComments>>
       ELSE /\ i' = 0
            /\ allOutdatedComments' = <<>>
            /\ pc' = "batches"
            /\ UNCHANGED <<error, exitCode>>
    /\ UNCHANGED <<options, apiKey, changedFiles, relatedFiles, allFiles,
                   comments, outdatedComments>>
    /\ UNCHANGED <<llmRequests, inFlight, batchLog, batchResponses, grouped, deduplicated>>
    /\ UNCHANGED depVars
    /\ UNCHANGED scriptVars

\* const batchResults = await analyzeCommentBatch(...): the loop is suspended
\* at the await until the batch's response has arrived
AfterIssueNoAwait == "batches"
AfterIssue == "awaitBatch"

\* analyzeCommentBatch: anthropic.messages.create is called
IssueBatch ==
    /\ pc = "batches"
    /\ i < comments
    /\ llmRequests' = llmRequests + 1
    /\ inFlight' = inFlight + 1
    /\ batchLog' = Append(batchLog, (i \div BATCH_SIZE) + 1)
    /\ pc' = AfterIssue
    /\ UNCHANGED <<options, apiKey, error, exitCode, changedFiles, relatedFiles,
                   allFiles, comments, outdatedComments>>
    /\ UNCHANGED <<i, allOutdatedComments, batchResponses, grouped, deduplicated>>
    /\ UNCHANGED depVars
    /\ UNCHANGED scriptVars

\* if (!toolUse || toolUse.type !== 'tool_use') return []
NoToolUseThrows == [value |-> <<>>, raised |-> TRUE]
NoToolUse == [value |-> <<>>, raised |-> FALSE]

\* the record of an answered batch request
BatchResponse(kind, findings) == [kind |-> kind, findings |-> findings]

\* analyzeCommentBatch: the response arrives (or the request fails)
ReceiveBatch ==
    /\ pc = "awaitBatch"
    /\ inFlight' = inFlight - 1
    /\ \E response \in {"throws", "notool", "badinput", "tool_use"} :
          CASE response = "throws" ->
                 /\ Fail("llm")
                 /\ batchResponses' = Append(batchResponses, BatchResponse(response, <<>>))
                 /\ UNCHANGED <<i, allOutdatedComments>>
            [] response = "badinput" ->        \* result.outdated_comments is undefined
                 /\ Fail("llm")
                 /\ batchResponses' = Append(batchResponses, BatchResponse(response, <<>>))
                 /\ UNCHANGED <<i, allOutdatedComments>>
            [] response = "notool" ->
                 /\ batchResponses' = Append(batchResponses, BatchResponse(response, <<>>))
                 /\ IF NoToolUse.raised
                    THEN /\ Fail("llm")
                         /\ UNCHANGED <<i, allOutdatedComments>>
                    ELSE /\ allOutdatedComments' = allOutdatedComments \o NoToolUse.value
                         /\ i' = i + BATCH_SIZE
                         /\ pc' = "batches"
                         /\ UNCHANGED <<error, exitCode>>
            [] response = "tool_use" ->
                 \E batchResults \in BatchFindings :
                    /\ batchResponses' = Append(batchResponses, BatchResponse(response, batchResults))
                    /\ allOutdatedComments' = allOutdatedComments \o batchResults
                    /\ i' = i + BATCH_SIZE
                    /\ pc' = "batches"
                    /\ UNCHANGED <<error, exitCode>>
    /\ UNCHANGED <<options, apiKey, changedFiles, relatedFiles, allFiles,
                   comments, outdatedComments>>
    /\ UNCHANGED <<llmRequests, batchLog, grouped, deduplicated>>
    /\ UNCHANGED depVars
    /\ UNCHANGED scriptVars

\* deduplicateComments: sort and group
StartDeduplicate ==
    /\ pc = "batches"
    /\ i >= comments
    /\ grouped' = GroupSorted(SortFindings(allOutdatedComments), <<>>, <<>>)
    /\ deduplicated' = <<>>
    /\ pc' = "deduplicate"
    /\ UNCHANGED <<options, apiKey, error, exitCode, changedFiles, relatedFiles,
                   allFiles, comments, outdatedComments>>
    /\ UNCHANGED <<llmRequests, inFlight, i, allOutdatedComments, batchLog, batchResponses>>
    /\ UNCHANGED depVars
    /\ UNCHANGED scriptVars

\* deduplicateComments: a group of one entry is kept as it is
KeepSingle ==
    /\ pc = "deduplicate"
    /\ grouped # <<>>
    /\ Len(Head(grouped)) = 1
    /\ deduplicated' = Append(deduplicated, Head(grouped)[1])
    /\ grouped' = Tail(grouped)
    /\ UNCHANGED <<cliVars, depVars>>
    /\ UNCHANGED <<llmRequests, inFlight, i, allOutdatedComments, batchLog, batchResponses>>
    /\ UNCHANGED scriptVars

\* consolidateReasons: anthropic.messages.create is called
IssueConsolidate ==
    /\ pc = "deduplicate"
    /\ grouped # <<>>
    /\ Len(Head(grouped)) > 1
    /\ llmRequests' = llmRequests + 1
    /\ inFlight' = inFlight + 1
    /\ pc' = "awaitConsolidate"
    /\ UNCHANGED <<options, apiKey, error, exitCode, changedFiles, relatedFiles,
                   allFiles, comments, outdatedComments>>
    /\ UNCHANGED <<i, allOutdatedComments, batchLog, batchResponses, grouped, deduplicated>>
    /\ UNCHANGED depVars
    /\ UNCHANGED scriptVars

\* consolidateReasons: the response arrives (or the request fails)
ReceiveConsolidate ==
    /\ pc = "awaitConsolidate"
    /\ inFlight' = inFlight - 1
    /\ \E response \in {"throws", "notool", "tool_use"} :
          IF response = "throws"
          THEN /\ Fail("consolidate")
               /\ UNCHANGED <<grouped, deduplicated>>
          ELSE /\ deduplicated' =
                     Append(deduplicated,
                            IF response = "notool" THEN Head(grouped)[1]
                            ELSE [Head(grouped)[1] EXCEPT !.reason = "consolidated"])
               /\ grouped' = Tail(grouped)
               /\ pc' = "deduplicate"
               /\ UNCHANGED <<error, exitCode>>
    /\ UNCHANGED <<options, apiKey, changedFiles, relatedFiles, allFiles,
                   comments, outdatedComments>>
    /\ UNCHANGED <<llmRequests, i, allOutdatedComments, batchLog, batchResponses>>
    /\ UNCHANGED depVars
    /\ UNCHANGED scriptVars

\* analyzeComments returns the deduplicated list
ReturnOutdated ==
    /\ pc = "deduplicate"
    /\ grouped = <<>>
    /\ outdatedComments' = deduplicated
    /\ pc' = "report"
    /\ UNCHANGED <<options, apiKey, error, exitCode, changedFiles, relatedFiles,
                   allFiles, comments>>
    /\ UNCHANGED <<depVars, llmVars>>
    /\ UNCHANGED scriptVars

\* the exit code the action asks for once the report is out
ExitCodeAlwaysZero(n) == 0
ExitCodeFor(n) == IF n > 0 THEN 1 ELSE 0

\* Step 6: generateReport, write or print it, exit
Report ==
    /\ pc = "report"
    /\ \E out \in {"printed", "written", "writeFails"} :
          IF out = "writeFails"
          THEN Fail("writeFile")
          ELSE /\ pc' = "exited"
               /\ exitCode' = ExitCodeFor(Len(outdatedComments))
               /\ UNCHANGED error
    /\ UNCHANGED <<options, apiKey, changedFiles, relatedFiles, allFiles,
                   comments, outdatedComments>>
    /\ UNCHANGED <<depVars, llmVars>>
    /\ UNCHANGED scriptVars

\* ------------------------------------------------------------------- Next
Next ==
    \/ GetChangedFiles
    \/ SkipDependents
    \/ CallGetDependents
    \/ Cruise
    \/ SkipEntry
    \/ Expand
    \/ ReturnRelated
    \/ ExtractComments
    \/ GetDiff
    \/ AnalyzeComments
    \/ IssueBatch
    \/ ReceiveBatch
    \/ StartDeduplicate
    \/ KeepSingle
    \/ IssueConsolidate
    \/ ReceiveConsolidate
    \/ ReturnOutdated
    \/ Report

Spec == Init /\ [][Next]_vars

\* the check command up to the return of getDependents
DependentsNext ==
    \/ GetChangedFiles
    \/ SkipDependents
    \/ CallGetDependents
    \/ Cruise
    \/ SkipEntry
    \/ Expand
    \/ ReturnRelated

\* the while loop of getDependents is synchronous code: once entered, each of
\* its iterations and the return after it run without waiting for anything
FairSpec ==
    /\ Init
    /\ [][DependentsNext]_vars
    /\ WF_vars(SkipEntry) /\ WF_vars(Expand) /\ WF_vars(ReturnRelated)

\* the findings deduplicateComments may be given on its own
DedupFindings == FindingChoices \cup {Finding("a.ts", 4), Finding("b.ts", 1)}

\* analyzeComments after its only batch was answered with a tool_use block:
\* the loop over the batches is over and deduplicateComments is called next
DedupInit ==
    /\ build = "dist"
    /\ options = [deps |-> TRUE, depth |-> 0]
    /\ apiKey = TRUE
    /\ pc = "batches"
    /\ error = "none"
    /\ exitCode = 0
    /\ changedFiles = <<>>
    /\ relatedFiles = <<>>
    /\ allFiles = <<>>
    /\ comments = BATCH_SIZE
    /\ outdatedComments = <<>>
    /\ resolverCalls = 0
    /\ llmRequests = 1
    /\ inFlight = 0
    /\ result = NoResult
    /\ depth = 0
    /\ changedSet = <<>>
    /\ dependentMap = EmptyMap
    /\ dependencyMap = EmptyMap
    /\ queue = <<>>
    /\ visited = <<>>
    /\ relatedSet = <<>>
    /\ raised = FALSE
    /\ i = BATCH_SIZE
    /\ allOutdatedComments \in SeqsUpTo(DedupFindings, MaxDedupFindings)
    /\ batchLog = <<1>>
    /\ batchResponses = <<BatchResponse("tool_use", allOutdatedComments)>>
    /\ grouped = <<>>
    /\ deduplicated = <<>>
    /\ PosIdle
    /\ NoiseIdle
    /\ ActIdle
    /\ NormIdle
    /\ DiffIdle
    /\ GroupIdle
    /\ CacheIdle

DedupNext ==
    \/ StartDeduplicate
    \/ KeepSingle
    \/ IssueConsolidate
    \/ ReceiveConsolidate
    \/ ReturnOutdated

DedupSpec == DedupInit /\ [][DedupNext]_vars

TypeOK ==
    /\ pc \in {"getChangedFiles", "relatedFiles", "cruise", "bfs", "extractComments",
               "getDiff", "analyzeComments", "batches", "awaitBatch", "deduplicate",
               "awaitConsolidate", "report", "exited"}
    /\ exitCode \in {0, 1}
    /\ inFlight \in {0, 1}


\* ------------------------------------- the action script: diff positions
\* a line of a file's patch: a hunk header "@@ -a,b +c,d @@" with its c, a
\* line that starts with @@ and does not match the header pattern, an added
\* line "+...", a context line " ...", a removed line "-...", or another
\* line (empty, or "\ No newline at end of file")
PatchLine(kind, start) == [kind |-> kind, start |-> start]
HunkStarts == {1, 12}
PatchLineChoices ==
    {PatchLine("hunk", c) : c \in HunkStarts} \cup
    {PatchLine(k, 0) : k \in {"badhunk", "add", "ctx", "del", "other"}}
Patches == SeqsUpTo(PatchLineChoices, MaxPatchLen)

\* the lines a finding may name
TargetLines ==
    UNION {c..(c + MaxPatchLen - 1) : c \in HunkStarts}

\* foundPosition = null
Null == 0

\* line.startsWith('@@')
StartsWithAtAt(line) == line.kind \in {"hunk", "badhunk"}

\* line.match(/@@ -\d+(?:,\d+)? \+(\d+)/)
HeaderMatches(line) == line.kind = "hunk"

\* line.startsWith('+') || line.startsWith(' ')
CountedWithRemoved(line) == line.kind \in {"add", "ctx", "del"}
Counted(line) == line.kind \in {"add", "ctx"}

\* the loop over patchLines, from index i (0-based) with the running
\* currentLine, for the target line L
RECURSIVE ScanPatch(_, _, _, _)
ScanPatch(lines, idx, currentLine, L) ==
    IF idx >= Len(lines) THEN Null
    ELSE LET line == lines[idx + 1]
         IN  IF StartsWithAtAt(line)
             THEN ScanPatch(lines, idx + 1,
                            IF HeaderMatches(line) THEN line.start - 1 ELSE currentLine,
                            L)
             ELSE IF Counted(line)
                  THEN IF currentLine + 1 = L
                       THEN idx + 1
                       ELSE ScanPatch(lines, idx + 1, currentLine + 1, L)
                  ELSE ScanPatch(lines, idx + 1, currentLine, L)

PosStart ==
    /\ patchLines \in Patches
    /\ commentLine \in TargetLines
    /\ foundPosition = Null
    /\ posPc = "scan"

PosInit ==
    /\ CheckIdle("dist", [deps |-> TRUE, depth |-> 0], FALSE)
    /\ PosStart
    /\ NoiseIdle
    /\ ActIdle
    /\ NormIdle
    /\ DiffIdle
    /\ GroupIdle
    /\ CacheIdle

\* the body of findCommentPositions for one comment whose file has a patch
FindPosition ==
    /\ posPc = "scan"
    /\ foundPosition' = ScanPatch(patchLines, 0, 0, commentLine)
    /\ posPc' = "done"
    /\ UNCHANGED <<patchLines, commentLine>>
    /\ UNCHANGED <<cliVars, depVars, llmVars, noiseVars, actVars, normVars, diffVars, groupVars, cacheVars>>

PosNext ==
    \/ FindPosition

PosSpec == PosInit /\ [][PosNext]_vars

\* ----------------------------------------------------- the noise filter
\* cleaned comment texts, one character per entry
Text ==
    [ Ok |-> <<"o", "k">>,
      Note |-> <<"N", "O", "T", "E", ":", " ", "l", "e", "g", "a", "c", "y", " ", "p", "a", "t", "h">>,
      NoteLower |-> <<"n", "o", "t", "e", ":", " ", "l", "e", "g", "a", "c", "y", " ", "p", "a", "t", "h">>,
      Hack |-> <<"H", "A", "C", "K", ":", " ", "t", "i", "d", "y", " ", "t", "h", "i", "s", " ", "u", "p">>,
      SeeTodo |-> <<"s", "e", "e", " ", "t", "o", "d", "o", ":", " ", "l", "a", "t", "e", "r", " ", "o", "n">>,
      TsIgnore |-> <<"@", "t", "s", "-", "i", "g", "n", "o", "r", "e">>,
      TsIgnoreUpper |-> <<"@", "T", "S", "-", "I", "G", "N", "O", "R", "E">>,
      EslintUpper |-> <<"E", "S", "L", "I", "N", "T", "-", "D", "I", "S", "A", "B", "L", "E", "-", "L", "I", "N", "E">>,
      Eslint |-> <<"e", "s", "l", "i", "n", "t", "-", "d", "i", "s", "a", "b", "l", "e", "-", "l", "i", "n", "e">>,
      Short |-> <<"s", "h", "o", "r", "t">>,
      Nine |-> <<"n", "i", "n", "e", " ", "c", "h", "a", "r">>,
      Ten |-> <<"t", "e", "n", " ", "c", "h", "a", "r", "s", ".">>,
      Eleven |-> <<"e", "l", "e", "v", "e", "n", " ", "c", "h", "a", "r">>,
      Prose |-> <<"r", "e", "t", "u", "r", "n", "s", " ", "t", "h", "e", " ", "l", "e", "g", "a", "c", "y", " ", "p", "a", "t", "h">>,
      One |-> <<"x">> ]
CommentTexts ==
    {Text.Ok, Text.Note, Text.NoteLower, Text.Hack,
     Text.SeeTodo, Text.TsIgnore, Text.TsIgnoreUpper, Text.EslintUpper,
     Text.Eslint, Text.Short, Text.Nine, Text.Ten,
     Text.Eleven, Text.Prose, Text.One}

\* the sources of the regular expressions, one character per entry
Src ==
    [ TODO |-> <<"T", "O", "D", "O", ":">>,
      FIXME |-> <<"F", "I", "X", "M", "E", ":">>,
      NOTE |-> <<"N", "O", "T", "E", ":">>,
      HACK |-> <<"H", "A", "C", "K", ":">>,
      AtTs |-> <<"@", "t", "s", "-">>,
      Eslint |-> <<"e", "s", "l", "i", "n", "t", "-">>,
      Prettier |-> <<"p", "r", "e", "t", "t", "i", "e", "r", "-">>,
      TsIgnore |-> <<"@", "t", "s", "-", "i", "g", "n", "o", "r", "e">>,
      TsExpectError |-> <<"@", "t", "s", "-", "e", "x", "p", "e", "c", "t", "-", "e", "r", "r", "o", "r">>,
      EslintDisable |-> <<"e", "s", "l", "i", "n", "t", "-", "d", "i", "s", "a", "b", "l", "e">>,
      PrettierIgnore |-> <<"p", "r", "e", "t", "t", "i", "e", "r", "-", "i", "g", "n", "o", "r", "e">>,
      Legacy |-> <<"l", "e", "g", "a", "c", "y">> ]

\* a regular expression: a literal source, anchored at the start (^) or the
\* end ($) or not, with the flag i or without it
RegExp(source, atStart, atEnd, ignoreCase) ==
    [source |-> source, atStart |-> atStart, atEnd |-> atEnd, ignoreCase |-> ignoreCase]

UpperChars == <<"A", "B", "C", "D", "E", "F", "G", "H", "I", "J", "K", "L", "M",
                "N", "O", "P", "Q", "R", "S", "T", "U", "V", "W", "X", "Y", "Z">>
LowerChars == <<"a", "b", "c", "d", "e", "f", "g", "h", "i", "j", "k", "l", "m",
                "n", "o", "p", "q", "r", "s", "t", "u", "v", "w", "x", "y", "z">>

\* case folding of one character, as the flag i compares characters
toLowerCase(c) ==
    IF \E k \in 1..Len(UpperChars) : UpperChars[k] = c
    THEN LowerChars[CHOOSE k \in 1..Len(UpperChars) : UpperChars[k] = c]
    ELSE c

\* the pattern's source matches the text at offset off
MatchesAt(pattern, text, off) ==
    /\ off + Len(pattern.source) <= Len(text)
    /\ \A k \in 1..Len(pattern.source) :
          IF pattern.ignoreCase
          THEN toLowerCase(pattern.source[k]) = toLowerCase(text[off + k])
          ELSE pattern.source[k] = text[off + k]

\* pattern.test(comment)
test(pattern, text) ==
    \E off \in 0..Len(text) :
       /\ pattern.atStart => off = 0
       /\ pattern.atEnd => off + Len(pattern.source) = Len(text)
       /\ MatchesAt(pattern, text, off)

\* patterns.some(pattern => pattern.test(comment))
some(patterns, text) == \E k \in 1..Len(patterns) : test(patterns[k], text)

\* defaultPatterns of isNoiseComment
defaultPatterns ==
    << RegExp(Src.TODO, TRUE, FALSE, TRUE),
       RegExp(Src.FIXME, TRUE, FALSE, TRUE),
       RegExp(Src.NOTE, TRUE, FALSE, TRUE),
       RegExp(Src.TsIgnore, TRUE, TRUE, FALSE),
       RegExp(Src.TsExpectError, TRUE, TRUE, FALSE),
       RegExp(Src.EslintDisable, TRUE, FALSE, FALSE),
       RegExp(Src.PrettierIgnore, TRUE, FALSE, FALSE) >>

\* defaultConfig.commentFilters
DefaultMinLength == 10
DefaultIgnorePatterns ==
    <<Src.TODO, Src.FIXME, Src.NOTE, Src.HACK, Src.AtTs, Src.Eslint, Src.Prettier>>
defaultConfig == Filters(TRUE, TRUE, DefaultMinLength, TRUE, DefaultIgnorePatterns)

\* the ignorePatterns a configuration file may set
PatternLists ==
    { <<>>, <<Src.TODO, Src.FIXME>>, <<Src.Legacy>>, DefaultIgnorePatterns }

\* the commentFilters a configuration file may hold
UserFilters ==
    {NoFilters} \cup
    { Filters(TRUE, hm, IF hm THEN m ELSE 0, hp, IF hp THEN ps ELSE <<>>) :
        hm \in BOOLEAN, m \in 0..MaxMinLength, hp \in BOOLEAN, ps \in PatternLists }

\* what loadConfig finds: no file, a JSON file or a JS module
ConfigFiles ==
    { [kind |-> "none", filters |-> NoFilters] } \cup
    { [kind |-> k, filters |-> f] : k \in {"json", "js"}, f \in UserFilters }

\* loadConfig: defaultConfig without a file, { ...defaultConfig, ...userConfig }
\* for a JSON file, the module itself for a JS file
loadConfig(file) ==
    CASE file.kind = "none" -> defaultConfig
      [] file.kind = "json" -> IF file.filters.present THEN file.filters ELSE defaultConfig
      [] file.kind = "js" -> file.filters

\* config.commentFilters?.ignorePatterns || []
ignorePatternsOf(config) ==
    IF config.present /\ config.hasPatterns THEN config.ignorePatterns ELSE <<>>

\* ignorePatterns.length > 0 ? ignorePatterns.map(p => new RegExp(p, 'i')) : defaultPatterns
patternsOf(config) ==
    LET ignorePatterns == ignorePatternsOf(config)
    IN  IF Len(ignorePatterns) > 0
        THEN [k \in 1..Len(ignorePatterns) |-> RegExp(ignorePatterns[k], FALSE, FALSE, TRUE)]
        ELSE defaultPatterns

\* config.commentFilters?.minLength || 10
minLengthOf(config) ==
    IF config.present /\ config.hasMinLength /\ config.minLength # 0
    THEN config.minLength
    ELSE DefaultMinLength

\* isNoiseComment: the value returned and the test that decided it
isNoiseComment(comment, config) ==
    IF Len(comment) < minLengthOf(config)
    THEN [noise |-> TRUE, by |-> "length"]
    ELSE IF some(patternsOf(config), comment)
         THEN [noise |-> TRUE, by |-> "pattern"]
         ELSE [noise |-> FALSE, by |-> "none"]

NoiseStart ==
    /\ configFile \in ConfigFiles
    /\ cleanedComment \in CommentTexts
    /\ isNoise = [noise |-> FALSE, by |-> "none"]
    /\ noisePc = "filter"

NoiseInit ==
    /\ CheckIdle("dist", [deps |-> TRUE, depth |-> 0], FALSE)
    /\ PosIdle
    /\ NoiseStart
    /\ ActIdle
    /\ NormIdle
    /\ DiffIdle
    /\ GroupIdle
    /\ CacheIdle

\* extractCommentsFromSourceFile asks isNoiseComment about a cleaned comment
FilterComment ==
    /\ noisePc = "filter"
    /\ isNoise' = isNoiseComment(cleanedComment, loadConfig(configFile))
    /\ noisePc' = "done"
    /\ UNCHANGED <<configFile, cleanedComment>>
    /\ UNCHANGED <<cliVars, depVars, llmVars, posVars, actVars, normVars, diffVars, groupVars, cacheVars>>

NoiseNext ==
    \/ FilterComment

NoiseSpec == NoiseInit /\ [][NoiseNext]_vars

\* ------------------------------------------------------ the action script
\* the files of the pull request as the PR files API lists them: a patch,
\* or none (binary or too large)
PRFile(filename, hasPatch, patch) ==
    [filename |-> filename, hasPatch |-> hasPatch, patch |-> patch]
PatchNear == <<PatchLine("hunk", 1), PatchLine("ctx", 0), PatchLine("del", 0),
               PatchLine("add", 0)>>
PatchFar == <<PatchLine("hunk", 12), PatchLine("add", 0)>>
PRFileLists ==
    { <<>>,
      <<PRFile("a.ts", TRUE, PatchNear)>>,
      <<PRFile("a.ts", TRUE, PatchFar)>>,
      <<PRFile("b.ts", FALSE, <<>>)>>,
      <<PRFile("a.ts", TRUE, PatchNear), PRFile("b.ts", FALSE, <<>>)>>,
      <<PRFile("a.ts", TRUE, PatchFar), PRFile("b.ts", TRUE, PatchNear)>> }

\* the head commits a pull_request event may name
Shas == {"c1", "c2"}

\* the findings a report may hold
ReportFindings == {Finding("a.ts", 1), Finding("a.ts", 2), Finding("b.ts", 1)}
ReportLists == SeqsUpTo(ReportFindings, MaxReportFindings)

\* how `comment-catcher check ... -f json -o report` may end: its exit
\* status, whether the report file exists, and the findings in it
CheckOutcome(status, report, findings) ==
    [status |-> status, report |-> report, findings |-> findings]
CheckOutcomes ==
    { CheckOutcome("0", FALSE, <<>>),           \* nothing to analyze
      CheckOutcome("0", TRUE, <<>>),            \* analysis ran, no finding
      CheckOutcome("1", FALSE, <<>>),           \* the command failed: process.exit(1)
      CheckOutcome("other", FALSE, <<>>) }      \* not started, or killed
    \cup { CheckOutcome("1", TRUE, fs) : fs \in ReportLists \ {<<>>} }

\* prFiles.find(f => f.filename === comment.comment.file)
RECURSIVE find(_, _)
find(files, filename) ==
    IF files = <<>> THEN [found |-> FALSE, file |-> PRFile(filename, FALSE, <<>>)]
    ELSE IF Head(files).filename = filename
         THEN [found |-> TRUE, file |-> Head(files)]
         ELSE find(Tail(files), filename)

\* notInDiff.push(comment)
PushDropped(list, comment) == list
Push(list, comment) == Append(list, comment)

\* findCommentPositions(prFiles, outdatedComments), from the buckets so far
RECURSIVE findCommentPositions(_, _, _, _)
findCommentPositions(files, outdated, positions, missing) ==
    IF outdated = <<>> THEN [positions |-> positions, notInDiff |-> missing]
    ELSE LET comment == Head(outdated)
             f == find(files, comment.file)
         IN  IF ~f.found \/ ~f.file.hasPatch
             THEN findCommentPositions(files, Tail(outdated), positions,
                                       Push(missing, comment))
             ELSE LET foundPos == ScanPatch(f.file.patch, 0, 0, comment.line)
                  IN  IF foundPos # Null
                      THEN findCommentPositions(
                               files, Tail(outdated),
                               Append(positions, [path |-> f.file.filename,
                                                  position |-> foundPos,
                                                  comment |-> comment]),
                               missing)
                      ELSE findCommentPositions(files, Tail(outdated), positions,
                                                Push(missing, comment))

\* process.exit(status), or main() returning: the run is over
Exit(status) ==
    /\ actPc' = "idle"
    /\ exitStatus' = status
    /\ checkStatus' = "none"
    /\ reportComments' = <<>>
    /\ prFiles' = <<>>
    /\ commentPositions' = <<>>
    /\ notInDiff' = <<>>
    /\ summaryBody' = NoBody
    /\ headSha' = "none"

\* an issue comment as GitHub stores it: its author and the heading of its
\* body, which is all that the lookup of the summary comment reads
IssueComment(login, body) == [login |-> login, marker |-> body.marker]

\* comments.find(c => c.body.includes('🔍 Comment Catcher Summary') &&
\*                    c.user.login === 'github-actions[bot]'): its index, or 0
existingSummary(list) ==
    LET hits == {k \in 1..Len(list) :
                    /\ list[k].marker = "summary"
                    /\ list[k].login = "github-actions[bot]"}
    IN  IF hits = {} THEN 0 ELSE CHOOSE k \in hits : \A h \in hits : k <= h

ActStart ==
    /\ actPc = "idle"
    /\ runs = 0
    /\ exitStatus = 0
    /\ tokenLogin \in {"github-actions[bot]", "some-user"}
    /\ issueComments = <<>>
    /\ NoReviews
    /\ ActLocalsUnset

ActInit ==
    /\ CheckIdle("dist", [deps |-> TRUE, depth |-> 0], FALSE)
    /\ PosIdle
    /\ NoiseIdle
    /\ ActStart
    /\ NormIdle
    /\ DiffIdle
    /\ GroupIdle
    /\ CacheIdle

\* a run starts: the event is parsed and ANTHROPIC_API_KEY is validated
StartRun ==
    /\ actPc = "idle"
    /\ runs < MaxRuns
    /\ runs' = runs + 1
    /\ \E event \in {"unparsable", "notpr", "pr"}, key \in BOOLEAN, sha \in Shas :
          CASE event = "unparsable" -> Exit(1)
            [] event = "notpr" -> Exit(0)
            [] event = "pr" /\ ~key -> Exit(1)
            [] event = "pr" /\ key ->
                 /\ actPc' = "check"
                 /\ headSha' = sha
                 /\ UNCHANGED <<exitStatus, checkStatus, reportComments, prFiles,
                                commentPositions, notInDiff, summaryBody>>
    /\ UNCHANGED <<tokenLogin, issueComments, reviews, dismissFailed>>
    /\ UNCHANGED <<cliVars, depVars, llmVars, posVars, noiseVars, normVars, diffVars, groupVars, cacheVars>>

\* main: the check command runs and its report is read
RunCheck ==
    /\ actPc = "check"
    /\ \E out \in CheckOutcomes, parses \in BOOLEAN :
          IF out.status = "other" \/ (out.report /\ ~parses)
          THEN Exit(1)
          ELSE /\ checkStatus' = out.status
               /\ reportComments' = IF out.report THEN out.findings ELSE <<>>
               /\ actPc' = IF reportComments' = <<>> THEN "postResults" ELSE "getPRFiles"
               /\ UNCHANGED <<exitStatus, prFiles, commentPositions, notInDiff,
                              summaryBody, headSha>>
    /\ UNCHANGED <<runs, tokenLogin, issueComments, reviews, dismissFailed>>
    /\ UNCHANGED <<cliVars, depVars, llmVars, posVars, noiseVars, normVars, diffVars, groupVars, cacheVars>>

\* main, no finding: a "Comment Catcher Results" comment is posted; the
\* response is not looked at
PostResults ==
    /\ actPc = "postResults"
    /\ \E response \in {"created", "notok", "rejects"} :
          /\ issueComments' =
                IF response = "created"
                THEN Append(issueComments, IssueComment(tokenLogin, Body("results", <<>>)))
                ELSE issueComments
          /\ Exit(IF response = "rejects" THEN 1 ELSE 0)
    /\ UNCHANGED <<runs, tokenLogin, reviews, dismissFailed>>
    /\ UNCHANGED <<cliVars, depVars, llmVars, posVars, noiseVars, normVars, diffVars, groupVars, cacheVars>>

\* main, findings: getPRFiles, then findCommentPositions
GetPRFiles ==
    /\ actPc = "getPRFiles"
    /\ \E out \in {"fails", "files"} :
          IF out = "fails"
          THEN Exit(1)
          ELSE \E files \in PRFileLists :
                  LET buckets == findCommentPositions(files, reportComments, <<>>, <<>>)
                  IN  /\ prFiles' = files
                      /\ commentPositions' = buckets.positions
                      /\ notInDiff' = buckets.notInDiff
                      /\ actPc' = "review"
                      /\ UNCHANGED <<exitStatus, checkStatus, reportComments, summaryBody,
                                     headSha>>
    /\ UNCHANGED <<runs, tokenLogin, issueComments, reviews, dismissFailed>>
    /\ UNCHANGED <<cliVars, depVars, llmVars, posVars, noiseVars, normVars, diffVars, groupVars, cacheVars>>

\* a review as GitHub stores it
ReviewOf(state, commit) == [state |-> state, commit_id |-> commit]

\* no review is dismissed
ShouldDismissNone(review, sha) == FALSE

\* dismissPreviousReviews: "only dismiss if it's not already dismissed and
\* it's from a previous commit"
ShouldDismiss(review, sha) ==
    review.state # "DISMISSED" /\ review.commit_id # sha

\* dismissPreviousReviews: the reviews after the loop, where ok[k] tells
\* whether the dismissal request for review k gets an ok response
dismissPreviousReviews(existing, sha, ok) ==
    [k \in 1..Len(existing) |->
        IF ShouldDismiss(existing[k], sha) /\ ok[k]
        THEN ReviewOf("DISMISSED", existing[k].commit_id)
        ELSE existing[k]]

\* main, findings: with inline positions the earlier reviews are dismissed
\* and a review is created; then the summary body is built
Review ==
    /\ actPc = "review"
    /\ IF commentPositions = <<>>
       THEN /\ summaryBody' = Body("summary", notInDiff)
            /\ actPc' = "summary"
            /\ UNCHANGED <<exitStatus, checkStatus, reportComments, prFiles,
                           commentPositions, notInDiff, headSha, reviews, dismissFailed>>
       ELSE \E listing \in {"fails", "ok"}, created \in BOOLEAN,
               ok \in [1..Len(reviews) -> BOOLEAN] :
               IF listing = "fails"
               THEN Exit(1) /\ UNCHANGED <<reviews, dismissFailed>>
               ELSE LET dismissed == dismissPreviousReviews(reviews, headSha, ok)
                    IN  /\ dismissFailed' =
                              (dismissFailed \/
                                 \E k \in 1..Len(reviews) :
                                    ShouldDismiss(reviews[k], headSha) /\ ~ok[k])
                        /\ IF created
                           THEN /\ reviews' = Append(dismissed,
                                                     ReviewOf("COMMENTED", headSha))
                                /\ summaryBody' = Body("summary", notInDiff)
                                /\ actPc' = "summary"
                                /\ UNCHANGED <<exitStatus, checkStatus, reportComments,
                                               prFiles, commentPositions, notInDiff,
                                               headSha>>
                           ELSE /\ reviews' = dismissed
                                /\ Exit(1)
    /\ UNCHANGED <<runs, tokenLogin, issueComments>>
    /\ UNCHANGED <<cliVars, depVars, llmVars, posVars, noiseVars, normVars, diffVars, groupVars, cacheVars>>

\* main, findings: the issue comments are fetched and the summary comment is
\* updated (PATCH) when one is found and created (POST) otherwise; the
\* response of the write is not looked at
WriteSummary ==
    /\ actPc = "summary"
    /\ \E listing \in {"fails", "ok"}, response \in {"written", "notok", "rejects"} :
          IF listing = "fails"
          THEN /\ Exit(1)
               /\ UNCHANGED issueComments
          ELSE LET k == existingSummary(issueComments)
               IN  /\ issueComments' =
                         IF response # "written" THEN issueComments
                         ELSE IF k # 0
                              THEN [issueComments EXCEPT ![k] =
                                      IssueComment(issueComments[k].login, summaryBody)]
                              ELSE Append(issueComments,
                                          IssueComment(tokenLogin, summaryBody))
                   /\ Exit(IF response = "rejects" THEN 1 ELSE 0)
    /\ UNCHANGED <<runs, tokenLogin, reviews, dismissFailed>>
    /\ UNCHANGED <<cliVars, depVars, llmVars, posVars, noiseVars, normVars, diffVars, groupVars, cacheVars>>

ActNext ==
    \/ StartRun
    \/ RunCheck
    \/ PostResults
    \/ GetPRFiles
    \/ Review
    \/ WriteSummary

ActSpec == ActInit /\ [][ActNext]_vars

\* ---------------------------------------------------- the path normalizer
\* the paths normalizeFilePath may be given: up to MaxPathLen characters out
\* of a dot, a slash, a backslash and a letter
PathChars == {".", "/", BS, "a"}
Paths == SeqsUpTo(PathChars, MaxPathLen)

NormInit ==
    /\ CheckIdle("dist", [deps |-> TRUE, depth |-> 0], FALSE)
    /\ PosIdle
    /\ NoiseIdle
    /\ ActIdle
    /\ filePath \in Paths
    /\ normalized = <<>>
    /\ normPc = "call"
    /\ DiffIdle
    /\ GroupIdle
    /\ CacheIdle

\* normalizeFilePath(filePath)
Normalize ==
    /\ normPc = "call"
    /\ normalized' = normalizeFilePath(filePath)
    /\ normPc' = "done"
    /\ UNCHANGED filePath
    /\ UNCHANGED <<cliVars, depVars, llmVars, posVars, noiseVars, actVars, diffVars, groupVars, cacheVars>>

NormSpec == NormInit /\ [][Normalize]_vars

\* ------------------------------------ the action script: full-diff mapper
\* a line of the pull request's diff: "diff --git a/f b/f" with its f, the
\* file header lines "index ...", "--- a/f" and "+++ b/f", a hunk header
\* "@@ -a,b +c,d @@" with its c, an added line, a context line or a removed
\* line
DiffLine(kind, file, start) == [kind |-> kind, file |-> file, start |-> start]

\* the lines of one hunk: its header and up to MaxHunkLen lines
Hunks ==
    {<<DiffLine("hunk", "", c)>> \o body :
        c \in {1, 2},
        body \in SeqsUpTo({DiffLine(k, "", 0) : k \in {"add", "ctx", "del"}}, MaxHunkLen)}

\* the part of the diff for one file
FileDiff(file, hunk) ==
    <<DiffLine("diff --git", file, 0), DiffLine("index", file, 0),
      DiffLine("---", file, 0), DiffLine("+++", file, 0)>> \o hunk

\* the diffs of a pull request that changes a.ts, or a.ts and b.ts
Diffs ==
    {FileDiff("a.ts", h) : h \in Hunks} \cup
    {FileDiff("b.ts", g) \o FileDiff("a.ts", h) : g \in Hunks, h \in Hunks}

\* line.startsWith('+') || line.startsWith(' ')
StartsWithPlusOrSpace(line) == line.kind \in {"add", "ctx", "+++"}

\* the loop over diffLines for one comment, from index i (0-based)
RECURSIVE ScanDiff(_, _, _, _, _, _, _)
ScanDiff(lines, idx, inFile, position, currentLineNumber, file, L) ==
    IF idx >= Len(lines) THEN Null
    ELSE LET line == lines[idx + 1]
         IN  IF line.kind = "diff --git"
             THEN ScanDiff(lines, idx + 1, line.file = file, 0, currentLineNumber, file, L)
             ELSE IF ~inFile
                  THEN ScanDiff(lines, idx + 1, inFile, position, currentLineNumber, file, L)
                  ELSE IF line.kind = "hunk"
                       THEN ScanDiff(lines, idx + 1, inFile, position + 1,
                                     line.start - 1, file, L)
                       ELSE IF StartsWithPlusOrSpace(line)
                            THEN IF currentLineNumber + 1 = L
                                 THEN position + 1
                                 ELSE ScanDiff(lines, idx + 1, inFile, position + 1,
                                               currentLineNumber + 1, file, L)
                            ELSE ScanDiff(lines, idx + 1, inFile, position + 1,
                                          currentLineNumber, file, L)

DiffInit ==
    /\ CheckIdle("dist", [deps |-> TRUE, depth |-> 0], FALSE)
    /\ PosIdle
    /\ NoiseIdle
    /\ ActIdle
    /\ NormIdle
    /\ diffLines \in Diffs
    /\ findingFile \in {"a.ts", "b.ts", "c.ts"}
    /\ findingLine \in 1..(MaxHunkLen + 2)
    /\ diffPosition = Null
    /\ diffPc = "scan"
    /\ GroupIdle
    /\ CacheIdle

\* the body of findCommentPositionsInDiff for one comment
FindPositionInDiff ==
    /\ diffPc = "scan"
    /\ diffPosition' = ScanDiff(diffLines, 0, FALSE, 0, 0, findingFile, findingLine)
    /\ diffPc' = "done"
    /\ UNCHANGED <<diffLines, findingFile, findingLine>>
    /\ UNCHANGED <<cliVars, depVars, llmVars, posVars, noiseVars, actVars, normVars, groupVars, cacheVars>>

DiffSpec == DiffInit /\ [][FindPositionInDiff]_vars

\* ------------------------------------------------- the comment grouping
\* a line of a source file: a statement or none, followed by a single-line
\* comment, a block comment or none
SourceLine(code, comment) == [code |-> code, comment |-> comment]
SourceLineChoices ==
    {SourceLine(c, k) : c \in BOOLEAN, k \in {"none", "single", "block"}}
SourceFiles == SeqsUpTo(SourceLineChoices, MaxSourceLines)

\* the text of a line, one character per entry, and of the file
CodeText(line) == IF line.code THEN <<"x", ";">> ELSE <<>>
CommentText(line) ==
    CASE line.comment = "single" -> <<"/", "/", "c">>
      [] line.comment = "block" -> <<"/", "*", "c", "*", "/">>
      [] OTHER -> <<>>
RECURSIVE SourceText(_)
SourceText(lines) ==
    IF lines = <<>> THEN <<>>
    ELSE CodeText(Head(lines)) \o CommentText(Head(lines)) \o <<"\n">>
         \o SourceText(Tail(lines))

\* sourceFile.getLineAndCharacterOfPosition(pos).line
LineOfPosition(text, pos) ==
    Cardinality({k \in 1..pos : text[k] = "\n"})

\* a comment range: its kind and its offsets in the text
CommentRange(kind, pos, end) == [kind |-> kind, pos |-> pos, end |-> end]

\* uniqueRanges: the comment ranges of the file, sorted by position
RECURSIVE UniqueRanges(_, _)
UniqueRanges(lines, offset) ==
    IF lines = <<>> THEN <<>>
    ELSE LET line == Head(lines)
             pos == offset + Len(CodeText(line))
             end == pos + Len(CommentText(line))
         IN  (IF line.comment = "none" THEN <<>>
              ELSE <<CommentRange(line.comment, pos, end)>>)
             \o UniqueRanges(Tail(lines), end + 1)

\* currentGroup = null
NoGroup == CommentRange("none", 0, 0)

\* the loop of groupConsecutiveComments and the push after it
RECURSIVE GroupRanges(_, _, _, _)
GroupRanges(ranges, text, groupedSoFar, currentGroup) ==
    IF ranges = <<>>
    THEN IF currentGroup # NoGroup THEN Append(groupedSoFar, currentGroup) ELSE groupedSoFar
    ELSE LET range == Head(ranges)
         IN  IF range.kind # "single"
             THEN GroupRanges(Tail(ranges), text,
                              Append(IF currentGroup # NoGroup
                                     THEN Append(groupedSoFar, currentGroup) ELSE groupedSoFar,
                                     range),
                              NoGroup)
             ELSE IF currentGroup = NoGroup
                  THEN GroupRanges(Tail(ranges), text, groupedSoFar, range)
                  ELSE LET currentEndLine == LineOfPosition(text, currentGroup.end)
                           nextStartLine == LineOfPosition(text, range.pos)
                       IN  IF nextStartLine = currentEndLine + 1
                           THEN GroupRanges(Tail(ranges), text, groupedSoFar,
                                            [currentGroup EXCEPT !.end = range.end])
                           ELSE GroupRanges(Tail(ranges), text,
                                            Append(groupedSoFar, currentGroup), range)

groupConsecutiveComments(ranges, text) ==
    IF ranges = <<>> THEN <<>> ELSE GroupRanges(ranges, text, <<>>, NoGroup)

GroupInit ==
    /\ CheckIdle("dist", [deps |-> TRUE, depth |-> 0], FALSE)
    /\ PosIdle
    /\ NoiseIdle
    /\ ActIdle
    /\ NormIdle
    /\ DiffIdle
    /\ sourceLines \in SourceFiles
    /\ groupedRanges = <<>>
    /\ groupPc = "group"
    /\ CacheIdle

\* extractCommentsFromSourceFile: the ranges of the file are grouped
GroupComments ==
    /\ groupPc = "group"
    /\ groupedRanges' = groupConsecutiveComments(UniqueRanges(sourceLines, 0),
                                                 SourceText(sourceLines))
    /\ groupPc' = "done"
    /\ UNCHANGED sourceLines
    /\ UNCHANGED <<cliVars, depVars, llmVars, posVars, noiseVars, actVars, normVars,
                   diffVars, cacheVars>>

GroupSpec == GroupInit /\ [][GroupComments]_vars

\* ------------------------------------------------------ the config cache
\* what the working directory may hold: no config file, a JSON file (with
\* or without commentFilters), a JS module, or a JSON file that does not parse
DiskConfigs ==
    { [kind |-> "none", filters |-> NoFilters],
      [kind |-> "json", filters |-> NoFilters],
      [kind |-> "json", filters |-> Filters(TRUE, TRUE, MaxMinLength, FALSE, <<>>)],
      [kind |-> "json", filters |-> Filters(TRUE, FALSE, 0, TRUE, <<Src.Legacy>>)],
      [kind |-> "js", filters |-> Filters(TRUE, FALSE, 0, TRUE, <<Src.Legacy>>)],
      [kind |-> "unparseable", filters |-> NoFilters] }

\* if (cachedConfig !== null)
CacheHitNever(cache) == FALSE
CacheHit(cache) == cache.set

CacheInit ==
    /\ CheckIdle("dist", [deps |-> TRUE, depth |-> 0], FALSE)
    /\ PosIdle
    /\ NoiseIdle
    /\ ActIdle
    /\ NormIdle
    /\ DiffIdle
    /\ GroupIdle
    /\ cachedConfig = NullConfig
    /\ diskConfig \in DiskConfigs
    /\ fsReads = 0
    /\ loadResult = LoadResult("none", NoFilters)
    /\ loadCalls = 0

\* a call of loadConfig; every caller awaits it before the next call is made
LoadConfig ==
    /\ loadCalls < MaxLoadCalls
    /\ loadCalls' = loadCalls + 1
    /\ IF CacheHit(cachedConfig)
       THEN /\ loadResult' = LoadResult("returned", cachedConfig.config)
            /\ UNCHANGED <<cachedConfig, fsReads>>
       ELSE /\ fsReads' = fsReads + 1
            /\ IF diskConfig.kind = "unparseable"
               THEN /\ loadResult' = LoadResult("thrown", NoFilters)
                    /\ UNCHANGED cachedConfig
               ELSE /\ cachedConfig' = Cached(loadConfig(diskConfig))
                    /\ loadResult' = LoadResult("returned", loadConfig(diskConfig))
    /\ UNCHANGED diskConfig
    /\ UNCHANGED <<cliVars, depVars, llmVars, posVars, noiseVars, actVars, normVars,
                   diffVars, groupVars>>

\* the config file is written, replaced or removed while the process runs
ChangeDisk ==
    /\ diskConfig' \in DiskConfigs \ {diskConfig}
    /\ UNCHANGED <<cachedConfig, fsReads, loadResult, loadCalls>>
    /\ UNCHANGED <<cliVars, depVars, llmVars, posVars, noiseVars, actVars, normVars,
                   diffVars, groupVars>>

CacheNext ==
    \/ LoadConfig
    \/ ChangeDisk

CacheSpec == CacheInit /\ [][CacheNext]_vars

\* ------------------------------------------------- the graph, for the claims
\* the import graph the resolver reported, on normalized paths, read from
\* the resolver's value and not from the two maps
ImportEdges ==
    { <<normalizeFilePath(p[1]), normalizeFilePath(p[2])>> :
        p \in Range(ImportPairs(result.modules)) }

\* the seeds, as normalized paths
Seeds == { normalizeFilePath(changedFiles[k]) : k \in 1..Len(changedFiles) }

\* the files of S and the files joined to one of them by an import edge of
\* E, in either direction
Step(S, E) == S \cup {e[2] : e \in {x \in E : x[1] \in S}}
                \cup {e[1] : e \in {x \in E : x[2] \in S}}

\* the files joined to a file of S by a path of at most k edges of E
RECURSIVE Within(_, _, _)
Within(S, E, k) == IF k = 0 THEN S ELSE Step(Within(S, E, k - 1), E)

\* the traversal of getDependents is running or has just returned its list
Traversing == pc = "bfs"
Returned ==
    /\ pc = "extractComments"
    /\ result.kind = "modules"
    /\ ~ProcessingThrows(result)

\* C1: the traversal's result never holds a seed, during the traversal and
\* in the list getDependents returns, whatever the graph, seeds and depth
C1_NoSeedInResult ==
    /\ Traversing => Range(relatedSet) \cap Seeds = {}
    /\ Returned => Range(relatedFiles) \cap Seeds = {}

\* a returned, non-empty result on a graph with an import cycle in which one
\* seed imports another seed
C1_Witness ==
    /\ Returned
    /\ relatedFiles # <<>>
    /\ LET E == ImportEdges
           S == Seeds
       IN  /\ \E e \in E : e[1] # e[2] /\ e[1] \in S /\ e[2] \in S
           /\ \E e \in E : e[1] # e[2] /\ <<e[2], e[1]>> \in E

\* C2: with depth >= 1 every file of the result lies within depth import
\* edges (either direction) of some seed, so no file further away is in it
C2_ResultWithinDepth ==
    (depth >= 1 /\ (Traversing \/ Returned)) =>
        LET near == Within(Seeds, ImportEdges, depth)
        IN  /\ Range(relatedSet) \subseteq near
            /\ Returned => Range(relatedFiles) \subseteq near

\* a returned, non-empty result that leaves out a file further than depth
C2_Witness ==
    /\ Returned
    /\ depth >= 1
    /\ relatedFiles # <<>>
    /\ LET E == ImportEdges
           near == Within(Seeds, E, depth)
       IN  \E n \in Step(near, E) : n \notin near /\ n \notin Range(relatedFiles)

\* C3: with depth >= 1 the compiled getDependents returns every non-seed
\* file within depth import edges (either direction) of some seed
C3_AllWithinDepthFound ==
    (depth >= 1 /\ Returned /\ build = "dist") =>
        LET S == Seeds
        IN  (Within(S, ImportEdges, depth) \ S) \subseteq Range(relatedFiles)

\* a returned result that holds a file two edges away from the nearest seed
C3_Witness ==
    /\ Returned
    /\ build = "dist"
    /\ depth = 2
    /\ LET S == Seeds
           E == ImportEdges
       IN  \E n \in Range(relatedFiles) : n \in Within(S, E, 2) /\ n \notin Within(S, E, 1)


\* C4: expanding a file adds every non-seed file that imports it and every
\* non-seed file it imports to the result and enqueues it at depth+1, in the
\* TypeScript source as in the compiled build
C4_BothDirections ==
    [][ (pc = "bfs" /\ visited' # visited) =>
          LET file == Head(queue).file
              currentDepth == Head(queue).currentDepth
              E == ImportEdges
              importers == {e[1] : e \in {x \in E : x[2] = file}}
              imports == {e[2] : e \in {x \in E : x[1] = file}}
          IN  \A n \in (importers \cup imports) \ Seeds :
                 /\ n \in Range(relatedSet')
                 /\ \E k \in 1..Len(queue') :
                       queue'[k] = [file |-> n, currentDepth |-> currentDepth + 1]
      ]_vars

\* C5: with depth 0 no seed is expanded and the result is empty
C5_DepthZeroEmpty ==
    (depth = 0 /\ (Traversing \/ Returned)) =>
        /\ visited = <<>>
        /\ relatedSet = <<>>
        /\ Returned => relatedFiles = <<>>

\* depth 0, the traversal has returned, and a seed has a non-seed neighbour
C5_Witness ==
    /\ Returned
    /\ depth = 0
    /\ changedFiles # <<>>
    /\ LET S == Seeds
       IN  Step(S, ImportEdges) # S

\* the graph of the scenario: A imports B, B imports C, D imports A
ScenarioEdges == { <<fA, fB>>, <<fB, fC>>, <<fD, fA>> }

\* C6: on the scenario graph with seed A, depth 1 returns exactly {B, D}
\* and depth 2 returns exactly {B, C, D}
C6_Scenario ==
    (Returned /\ ImportEdges = ScenarioEdges /\ Seeds = {fA}) =>
        /\ depth = 1 => Range(relatedFiles) = {fB, fD}
        /\ depth = 2 => Range(relatedFiles) = {fB, fC, fD}

\* the canonical name of a file, whatever its spelling
Canon(p) == normalizeFilePathSlashFirst(p)

\* no input path is written with a leading .\
NoDotBackslash ==
    /\ \A k \in 1..Len(changedFiles) : ~startsWith(changedFiles[k], <<".", BS>>)
    /\ \A p \in Range(ImportPairs(result.modules)) :
          ~startsWith(p[1], <<".", BS>>) /\ ~startsWith(p[2], <<".", BS>>)

\* C7: a seed written ./a/b and a module or dependency written a/b are one
\* node: the file is not in the result, the seed's import edges are followed,
\* and the result holds no file under two spellings
C7_SpellingsAreOneNode ==
    (Returned /\ NoDotBackslash) =>
        LET S == {Canon(changedFiles[k]) : k \in 1..Len(changedFiles)}
            E == {<<Canon(p[1]), Canon(p[2])>> : p \in Range(ImportPairs(result.modules))}
        IN  /\ \A k \in 1..Len(relatedFiles) : Canon(relatedFiles[k]) \notin S
            /\ (depth >= 1 /\ build = "dist") =>
                  (Step(S, E) \ S) \subseteq Range(relatedFiles)
            /\ \A k, l \in 1..Len(relatedFiles) :
                  Canon(relatedFiles[k]) = Canon(relatedFiles[l]) => k = l

\* the seed is written ./s/a, the resolver writes s/a, the file has import
\* edges and the result is not empty
C7_Witness ==
    /\ Returned
    /\ build = "dist"
    /\ depth >= 1
    /\ Spell(fA, Dotted) \in Range(changedFiles)
    /\ \E p \in Range(ImportPairs(result.modules)) : p[1] = fA
    /\ \E p \in Range(ImportPairs(result.modules)) : p[2] = fA
    /\ NoDotBackslash
    /\ relatedFiles # <<>>

\* C8: when processing the resolver's value throws, getDependents returns
\* [] and raises nothing, and the check action goes on with the changed
\* files only
C8_ResolverFailureDegrades ==
    (result.kind # "none" /\ ProcessingThrows(result)) =>
        /\ ~raised
        /\ error # "dependents"
        /\ relatedFiles = <<>>
        /\ pc \in {"extractComments", "getDiff", "exited"}
        /\ pc # "extractComments" => allFiles = changedFiles

\* a module list with a dependency record that cannot be processed, after
\* which comment extraction ran on the changed files
C8_Witness ==
    /\ result.kind = "modules"
    /\ ProcessingThrows(result)
    /\ pc = "getDiff"
    /\ changedFiles # <<>>
    /\ allFiles = changedFiles

\* C9: the exit code is 0 exactly when the run ended without an error and
\* with no finding, and 1 when there is a finding or a stage failed
C9_ExitCode ==
    pc = "exited" =>
        /\ exitCode \in {0, 1}
        /\ exitCode = 0 <=> (error = "none" /\ outdatedComments = <<>>)
        /\ exitCode = 1 <=> (error # "none" \/ outdatedComments # <<>>)

\* a run that ended without error and with a finding
C9_Witness ==
    /\ pc = "exited"
    /\ error = "none"
    /\ outdatedComments # <<>>
    /\ exitCode = 1

\* C10 as stated: without the credential every run exits non-zero and
\* issues no LLM request
C10_MissingKeyAlwaysFatal ==
    ~apiKey =>
        /\ llmRequests = 0
        /\ pc = "exited" => exitCode # 0

\* C10 amended: without the credential no LLM request is issued and every
\* run that reaches the analysis exits with code 1; a run that ends before
\* it (no changed file, no comment) exits 0
C10_MissingKeyFatalAtAnalysis ==
    ~apiKey =>
        /\ llmRequests = 0
        /\ pc \in {"getChangedFiles", "relatedFiles", "cruise", "bfs",
                   "extractComments", "getDiff", "analyzeComments", "exited"}
        /\ (pc = "exited" /\ exitCode = 0) => (comments = 0 /\ error = "none")
        /\ (pc = "exited" /\ comments > 0) => exitCode = 1

\* the run ended at the credential check
C10_Witness ==
    /\ ~apiKey
    /\ pc = "exited"
    /\ error = "credential"
    /\ exitCode = 1
    /\ llmRequests = 0

\* C19: with --no-deps the check action never calls the dependency resolver
\* (getDependents is not entered, cruise() is not called) and the list handed
\* to comment extraction is exactly the list of changed files
C19_NoDepsSkipsResolver ==
    options.deps = FALSE =>
        /\ resolverCalls = 0
        /\ pc \notin {"cruise", "bfs"}
        /\ result = NoResult
        /\ relatedFiles = <<>>
        /\ allFiles # <<>> => allFiles = changedFiles

\* --no-deps, two changed files, and comment extraction has run on them
C19_Witness ==
    /\ options.deps = FALSE
    /\ pc = "getDiff"
    /\ Len(changedFiles) = 2
    /\ allFiles = changedFiles
    /\ resolverCalls = 0

\* C20: the depth check is made when an entry is dequeued: every visited
\* (expanded) file lies strictly less than depth import edges from a seed, no
\* queue entry carries a depth above depth, and a file whose minimum depth is
\* exactly depth is in the compiled build's result without being visited
C20_DepthCheckedOnDequeue ==
    (Traversing \/ Returned) =>
        LET S == Seeds
            E == ImportEdges
            inner == IF depth = 0 THEN {} ELSE Within(S, E, depth - 1)
        IN  /\ Range(visited) \subseteq inner
            /\ \A k \in 1..Len(queue) : queue[k].currentDepth <= depth
            /\ (Returned /\ build = "dist" /\ depth >= 1) =>
                  \A f \in Within(S, E, depth) \ inner :
                     f \in Range(relatedFiles) /\ f \notin Range(visited)

\* the traversal has returned a file exactly depth edges from the seeds that
\* has a neighbour further away: it was added and not expanded
C20_Witness ==
    /\ Returned
    /\ build = "dist"
    /\ depth >= 1
    /\ visited # <<>>
    /\ LET S == Seeds
           E == ImportEdges
           near == Within(S, E, depth)
       IN  \E f \in near \ Within(S, E, depth - 1) :
              /\ f \in Range(relatedFiles)
              /\ f \notin Range(visited)
              /\ \E n \in Step({f}, E) : n \notin near /\ n \notin Range(relatedFiles)

\* C14: the batches are processed one after another: at most one LLM request
\* is in flight, the requests are issued in input order (batch 1, 2, ...),
\* and while the loop is about to issue a batch every earlier batch has been
\* answered; while it waits, exactly the last issued batch is unanswered
C14_BatchesSequential ==
    /\ inFlight <= 1
    /\ batchLog = [k \in 1..Len(batchLog) |-> k]
    /\ pc = "batches" => (inFlight = 0 /\ i = Len(batchLog) * BATCH_SIZE)
    /\ pc = "awaitBatch" => (inFlight = 1 /\ i = (Len(batchLog) - 1) * BATCH_SIZE)

\* the second batch's request is in flight after the first was answered
C14_Witness ==
    /\ pc = "awaitBatch"
    /\ batchLog = <<1, 2>>
    /\ i = BATCH_SIZE
    /\ inFlight = 1

\* the findings reported by the batches whose response held a tool_use block
RECURSIVE ToolFindings(_)
ToolFindings(log) ==
    IF log = <<>> THEN <<>>
    ELSE (IF Head(log).kind = "tool_use" THEN Head(log).findings ELSE <<>>)
         \o ToolFindings(Tail(log))

\* the file and line of each entry of a list of findings
Places(xs) == [k \in 1..Len(xs) |-> <<xs[k].file, xs[k].line>>]

\* C15: a batch whose response holds no tool_use block contributes the empty
\* list and raises no error: the collected findings are exactly those of the
\* batches that did answer with a tool_use block, the loop goes on, and the
\* list analyzeComments returns is the deduplication of those findings
C15_NoToolUseIsEmpty ==
    /\ allOutdatedComments = ToolFindings(batchResponses)
    /\ (\A k \in 1..Len(batchResponses) :
            batchResponses[k].kind \in {"notool", "tool_use"}) => error # "llm"
    /\ (batchResponses # <<>> /\ pc \in {"batches", "awaitBatch"}) =>
          error = "none"
    /\ pc = "report" =>
          LET groups == GroupSorted(SortFindings(ToolFindings(batchResponses)), <<>>, <<>>)
          IN  Places(outdatedComments) = Places([k \in 1..Len(groups) |-> groups[k][1]])

\* two batches, one of them answered without a tool_use block, and the
\* finding of the other one is returned
C15_Witness ==
    /\ pc = "report"
    /\ Len(batchResponses) = 2
    /\ \E k \in 1..2 : batchResponses[k].kind = "notool"
    /\ \E k \in 1..2 : batchResponses[k].kind = "tool_use"
    /\ outdatedComments # <<>>
    /\ error = "none"

\* the new-file line number of patch line k (1-based): c - 1 of the last
\* hunk header before it (0 when there is none) plus the number of context
\* and added lines from there up to and including k
NewFileLine(lines, k) ==
    LET headers == {h \in 1..(k - 1) : lines[h].kind = "hunk"}
        last == IF headers = {} THEN 0
                ELSE CHOOSE h \in headers : \A g \in headers : g <= h
        base == IF last = 0 THEN 0 ELSE lines[last].start - 1
    IN  base + Cardinality({j \in (last + 1)..k : lines[j].kind \in {"add", "ctx"}})

\* the patch lines that are context or added lines with new-file line L
LinesAt(lines, L) ==
    {k \in 1..Len(lines) : lines[k].kind \in {"add", "ctx"} /\ NewFileLine(lines, k) = L}

\* C13: the mapper returns the 1-based index, within the patch lines, of the
\* first context or added line whose new-file line number is L (null when
\* there is none); after "@@ -10,3 +12,4 @@", two context lines and one added
\* line, line 14 is the added line, at position 4
C13_PositionOfLine ==
    posPc = "done" =>
        LET at == LinesAt(patchLines, commentLine)
        IN  /\ at = {} => foundPosition = Null
            /\ at # {} => (foundPosition \in at /\ \A k \in at : foundPosition <= k)
            /\ (patchLines = <<PatchLine("hunk", 12), PatchLine("ctx", 0),
                               PatchLine("ctx", 0), PatchLine("add", 0)>>
                /\ commentLine = 14) => foundPosition = 4

\* the scenario of the claim has been mapped
C13_Witness ==
    /\ posPc = "done"
    /\ patchLines = <<PatchLine("hunk", 12), PatchLine("ctx", 0),
                      PatchLine("ctx", 0), PatchLine("add", 0)>>
    /\ commentLine = 14
    /\ foundPosition = 4

\* the minimum length a configuration sets: its minLength, or the default
\* when it sets none
ConfiguredMinLength(config) ==
    IF config.present /\ config.hasMinLength THEN config.minLength ELSE DefaultMinLength

\* C16: with a configured minLength m >= 0 (the default 10 when none is
\* configured) the noise filter rejects every cleaned text shorter than m,
\* its length check rejects no text of length m or more, and "ok" is
\* rejected under the defaults
C16_MinLengthRespected ==
    noisePc = "done" =>
        LET m == ConfiguredMinLength(loadConfig(configFile))
        IN  /\ Len(cleanedComment) < m => isNoise.noise
            /\ isNoise.by = "length" => Len(cleanedComment) < m
            /\ (configFile.kind = "none" /\ cleanedComment = Text.Ok) => isNoise.noise

\* the ignore set in force: the configured ignorePatterns, or the default
\* markers of defaultConfig when none are configured, each compiled with
\* the flag i
EffectiveIgnoreSet(config) ==
    LET configured == ignorePatternsOf(config)
        sources == IF Len(configured) > 0 THEN configured ELSE DefaultIgnorePatterns
    IN  [k \in 1..Len(sources) |-> RegExp(sources[k], FALSE, FALSE, TRUE)]

\* C17: the noise filter rejects every comment that matches, ignoring case,
\* a pattern of the ignore set in force, and "NOTE: legacy path" is rejected
\* under the defaults although it is not shorter than the minimum
C17_IgnorePatternsReject ==
    noisePc = "done" =>
        /\ some(EffectiveIgnoreSet(loadConfig(configFile)), cleanedComment) => isNoise.noise
        /\ (configFile.kind = "none" /\ cleanedComment = Text.Note) =>
              (isNoise.noise /\ isNoise.by = "pattern")

\* the Comment Catcher summary comments on the pull request: the comments
\* headed "Comment Catcher Results" and "Comment Catcher Summary"
SummaryComments ==
    {k \in 1..Len(issueComments) : issueComments[k].marker \in {"results", "summary"}}

\* C11: after any sequence of runs of the action on one pull request, with
\* and without findings, the pull request carries at most one Comment
\* Catcher summary comment
C11_AtMostOneSummary ==
    Cardinality(SummaryComments) <= 1

\* a finding has a position in the diff: its file is among the PR files
\* with a patch, and a context or added line of the patch has its line number
Resolvable(files, comment) ==
    LET f == find(files, comment.file)
    IN  f.found /\ f.file.hasPatch /\ LinesAt(f.file.patch, comment.line) # {}

\* C12: findCommentPositions puts every finding of the run in exactly one
\* bucket, keeping order: the findings with a line in their file's patch get
\* an inline position on such a line, all others (file not in the PR, no
\* patch, no matching line) go to the not-in-diff list; and the summary body
\* lists every not-in-diff finding
C12_TwoBuckets ==
    actPc \in {"review", "summary"} =>
        /\ [k \in 1..Len(commentPositions) |-> commentPositions[k].comment]
              = SelectSeq(reportComments, LAMBDA c : Resolvable(prFiles, c))
        /\ notInDiff = SelectSeq(reportComments, LAMBDA c : ~Resolvable(prFiles, c))
        /\ \A k \in 1..Len(commentPositions) :
              LET p == commentPositions[k]
                  f == find(prFiles, p.comment.file)
              IN  /\ p.path = p.comment.file
                  /\ p.position \in LinesAt(f.file.patch, p.comment.line)
        /\ actPc = "summary" => summaryBody = Body("summary", notInDiff)

\* a run with one finding on a line of the diff and one finding in a file
\* without a patch, whose summary body has been built
C12_Witness ==
    /\ actPc = "summary"
    /\ Len(reportComments) = 2
    /\ Len(commentPositions) = 1
    /\ Len(notInDiff) = 1
    /\ find(prFiles, notInDiff[1].file).found
    /\ summaryBody.listed = notInDiff

\* C18: every run of the action script ends with exit status 0
C18_AlwaysExitZero ==
    (actPc = "idle" /\ runs > 0) => exitStatus = 0

\* C21: the traversal loop terminates on every graph, seed set and depth,
\* import cycles and self-imports included: from some point on the program
\* is never again inside the loop with entries left in the queue
C21_TraversalTerminates ==
    <>[](~(pc = "bfs" /\ queue # <<>>))

\* the loop has emptied its queue on a graph with a self-import and an
\* import cycle through a seed, after expanding a file
C21_Witness ==
    /\ pc = "bfs"
    /\ queue = <<>>
    /\ visited # <<>>
    /\ LET E == ImportEdges
       IN  /\ \E e \in E : e[1] = e[2]
           /\ \E e \in E : e[1] # e[2] /\ e[1] \in Seeds /\ <<e[2], e[1]>> \in E

\* the least number of import edges (either direction) between f and a file
\* of S, for a file within depth edges of S
Distance(f, S, E) ==
    CHOOSE k \in 0..depth :
       /\ f \in Within(S, E, k)
       /\ \A j \in 0..(k - 1) : f \notin Within(S, E, j)

\* C22: the queue is first-in first-out (an iteration removes the head and
\* appends at the tail), its entries are in non-decreasing depth order, and
\* in the compiled build the depth at which a file is expanded is its least
\* distance from the nearest seed
C22_FifoMinimumDepth ==
    [][ (pc = "bfs" /\ pc' = "bfs") =>
          /\ Len(queue') >= Len(queue) - 1
          /\ SubSeq(queue', 1, Len(queue) - 1) = Tail(queue)
          /\ \A k, l \in 1..Len(queue') :
                k <= l => queue'[k].currentDepth <= queue'[l].currentDepth
          /\ (build = "dist" /\ visited' # visited) =>
                Head(queue).currentDepth =
                    Distance(Head(queue).file, Seeds, ImportEdges)
      ]_vars

\* a file that is one edge from one seed and further from another seed has
\* been expanded
C22_Witness ==
    /\ pc = "bfs"
    /\ build = "dist"
    /\ LET S == Seeds
           E == ImportEdges
       IN  \E f \in Range(visited) \ S :
              /\ f \in Within(S, E, 1)
              /\ \E x \in S : f \notin Within({x}, E, 1)

\* C23: once the compiled build has built its two maps, b is among
\* dependencyMap[a] exactly when a is among dependentMap[b], and exactly when
\* some module with source a lists a dependency resolved to b (normalized
\* paths); this stays so throughout the traversal and at its return
C23_MapsAreInverse ==
    ((Traversing \/ Returned) /\ build = "dist") =>
        LET E == ImportEdges
            nodes == {e[1] : e \in E} \cup {e[2] : e \in E}
                     \cup DOMAIN dependencyMap \cup DOMAIN dependentMap
        IN  \A a, b \in nodes :
               /\ (b \in Range(MapGet(dependencyMap, a))) <=> (<<a, b>> \in E)
               /\ (a \in Range(MapGet(dependentMap, b))) <=> (<<a, b>> \in E)

\* the traversal has expanded a file on a graph where one file has two
\* importers and one file has two imports
C23_Witness ==
    /\ Traversing
    /\ build = "dist"
    /\ visited # <<>>
    /\ \E b \in DOMAIN dependentMap : Len(dependentMap[b]) >= 2
    /\ \E a \in DOMAIN dependencyMap : Len(dependencyMap[a]) >= 2

\* C26: normalizeFilePath returns a canonical form: the value it returns
\* does not begin with ./ and holds no backslash, normalizing it again
\* returns it unchanged, and every spelling of the same file (one that
\* differs only in a leading ./ or .\ or in slash direction) normalizes to
\* the same value
C26_Canonical ==
    normPc = "done" =>
        /\ ~startsWith(normalized, DotSlash)
        /\ BS \notin Range(normalized)
        /\ normalizeFilePath(normalized) = normalized
        /\ \A q \in Paths :
              Canon(q) = Canon(filePath) => normalizeFilePath(q) = normalized

StartsRunOf(y, x, input) ==
    /\ y.file = x.file
    /\ y.line <= x.line
    /\ \A l \in y.line..x.line :
          \E k \in 1..Len(input) : input[k].file = x.file /\ input[k].line = l

\* findings of one file on the same line or on directly consecutive lines
Adjacent(x, y) ==
    x.file = y.file /\ x.line - y.line \in {-1, 0, 1}

C25_NoFindingsOnlyAfterCleanCheck ==
    [][(actPc = "postResults" /\ Len(issueComments') > Len(issueComments))
           => checkStatus = "0"]_vars

\* the Comment Catcher reviews that are not dismissed
Undismissed == {k \in 1..Len(reviews) : reviews[k].state # "DISMISSED"}

\* C27 as stated: after any sequence of runs in which every dismissal
\* request succeeded, at most one Comment Catcher review is undismissed
C27_AtMostOneUndismissed ==
    ~dismissFailed => Cardinality(Undismissed) <= 1

\* C27 amended: after any sequence of runs in which every dismissal request
\* succeeded, the undismissed Comment Catcher reviews are all reviews of
\* one commit, the commit of the review created last: before a run creates
\* a review it has dismissed every earlier review made for another commit,
\* and it leaves those made for its own head commit in place
C27_UndismissedOnLastCommit ==
    ~dismissFailed =>
        \A k \in Undismissed : reviews[k].commit_id = reviews[Len(reviews)].commit_id

\* a second run on a new commit has dismissed the review of the first and
\* created its own
C27_Witness ==
    /\ ~dismissFailed
    /\ Len(reviews) = 2
    /\ reviews[1] = ReviewOf("DISMISSED", "c1")
    /\ reviews[2] = ReviewOf("COMMENTED", "c2")

\* the index, among the diff lines, of the "diff --git" line of a file
FileStart(lines, file) ==
    CHOOSE h \in 1..Len(lines) : lines[h].kind = "diff --git" /\ lines[h].file = file

\* C28: whenever the full-diff mapper returns a position for a finding, the
\* diff line at that position of the finding's file is a context or added
\* line of a hunk whose new-file line number is the finding's line; the
\* header lines of the file (index, --- a/..., +++ b/...) are never counted
\* and never returned, also for line 1
C28_PositionIsHunkLine ==
    (diffPc = "done" /\ diffPosition # Null) =>
        LET k == FileStart(diffLines, findingFile) + diffPosition
        IN  /\ diffLines[k].kind \in {"add", "ctx"}
            /\ NewFileLine(diffLines, k) = findingLine

\* the input ranges that lie within a group
Covered(group, ranges) ==
    {k \in 1..Len(ranges) : group.pos <= ranges[k].pos /\ ranges[k].end <= group.end}

\* C29: groupConsecutiveComments merges only single-line comments on
\* directly consecutive lines, never merges a block comment, covers every
\* input range by exactly one output group, in position order, and the span
\* of a group holds comment text and whitespace only, no source code
C29_GroupsOnlyComments ==
    groupPc = "done" =>
        LET text == SourceText(sourceLines)
            ranges == UniqueRanges(sourceLines, 0)
            out == groupedRanges
        IN  /\ \A k \in 1..Len(ranges) :
                  Cardinality({g \in 1..Len(out) : k \in Covered(out[g], ranges)}) = 1
            /\ \A g, h \in 1..Len(out) : g < h => out[g].end <= out[h].pos
            /\ \A g \in 1..Len(out) :
                  LET in == Covered(out[g], ranges)
                  IN  /\ in # {}
                      /\ Cardinality(in) > 1 =>
                            \A k \in in :
                               /\ ranges[k].kind = "single"
                               /\ (k + 1 \in in =>
                                      LineOfPosition(text, ranges[k + 1].pos)
                                        = LineOfPosition(text, ranges[k].end) + 1)
                      /\ \A k \in in : ranges[k].kind = "block" => out[g] = ranges[k]
            /\ \A g \in 1..Len(out) :
                  \A c \in (out[g].pos + 1)..out[g].end : text[c] \notin {"x", ";"}

\* C30: loadConfig reads the configuration at most once per process: a call
\* made when an earlier call has returned gives back the cached object and
\* does not go to the file system, whatever the disk holds by then; a call
\* that throws (unparseable JSON) leaves the cache empty, so that the next
\* call reads again; and the cache, once set, never changes
C30_LoadedOnce ==
    [][/\ (loadCalls' # loadCalls /\ cachedConfig.set) =>
            /\ loadResult' = LoadResult("returned", cachedConfig.config)
            /\ fsReads' = fsReads
       /\ (loadCalls' # loadCalls /\ ~cachedConfig.set) =>
            /\ fsReads' = fsReads + 1
            /\ loadResult'.kind = "thrown" <=> diskConfig.kind = "unparseable"
            /\ loadResult'.kind = "thrown" => cachedConfig' = NullConfig
            /\ loadResult'.kind = "returned" => cachedConfig' = Cached(loadResult'.config)
       /\ cachedConfig.set => cachedConfig' = cachedConfig]_vars

\* a first call failed on an unparseable file, the second read again and
\* returned, and the third returned the cached object although the disk
\* holds another configuration by now
C30_Witness ==
    /\ loadCalls = 3
    /\ fsReads = 2
    /\ cachedConfig.set
    /\ loadResult = LoadResult("returned", cachedConfig.config)
    /\ diskConfig.kind # "unparseable"
    /\ loadConfig(diskConfig) # cachedConfig.config

====
